---- MODULE Spec2Model ----
(***************************************************************************)
(* Draft/publish versioning of Apps and Agents and the cursor pagination   *)
(* of the list endpoints of the tRPC routers (workspace, app, agent,       *)
(* artifact).  Tables are sets of rows; a where-clause is a set filter;    *)
(* a handler that runs in one database transaction is one action.          *)
(***************************************************************************)
EXTENDS Integers, Sequences, FiniteSets, TLC

VARIABLES
    App,               \* rows of table App (the "head" rows)
    AppVersion,        \* rows of table AppVersion (draft and published)
    Agent,             \* rows of table Agent
    AgentVersion,      \* rows of table AgentVersion
    AppsToCategories,  \* rows of the App/Category association
    AppsToTags,        \* rows of the App/Tag association
    Membership,        \* rows of table Membership
    Workspace,         \* rows of table Workspace
    Artifact,          \* rows of table Artifact, one per (id, version)
    ArtifactSuggestion,\* rows of table ArtifactSuggestion
    now,               \* the last reading of Math.floor(Date.now() / 1000)
    calls,             \* number of router calls made so far
    last,              \* the last router call and its outcome
    page,              \* the pagination walk: stored keys, request, result
    inflight,          \* the calls that have made their checks and await their write
    session            \* a request on its way through the middleware and auth()

vars == <<App, AppVersion, Agent, AgentVersion, AppsToCategories, AppsToTags,
          Membership, Workspace, Artifact, ArtifactSuggestion, now, calls, last,
          page, inflight, session>>

storeVars == <<App, AppVersion, Agent, AgentVersion, AppsToCategories,
               AppsToTags, Membership, Workspace, Artifact, ArtifactSuggestion,
               now, calls, last, inflight, session>>

\* the tables of the app and agent routers / of the artifact router
appVars == <<App, AppVersion, Agent, AgentVersion, AppsToCategories, AppsToTags>>
artifactVars == <<Artifact, ArtifactSuggestion>>

----------------------------------------------------------------------------
(* Bounds of the model *)

\* Date.now()/1000 ranges over 1..MaxClock
MaxClock == 2
\* number of router calls in one behaviour
MaxCalls == 4
\* the ordering keys of the listed rows range over 1..MaxKey
MaxKey == 3
\* the page size limit ranges over 1..MaxLimit
MaxLimit == 2
\* the versions of an Artifact range over 1..MaxVersion
MaxVersion == 5
\* number of trims of artifact versions in one behaviour
MaxTrims == 2

----------------------------------------------------------------------------
(* Identifiers and payloads *)

WorkspaceIds == {"w1", "w2"}
UserIds      == {"u1", "u2"}
AppIds       == {"a1", "a2"}
AgentIds     == {"g1", "g2"}
CategoryIds  == {"c1"}
TagNames     == {"t1"}
Names        == {"n1", "n2"}
MetaKeys     == {"k1", "k2"}
MetaVals     == {"x", "y"}

\* a key that an object does not have / a key whose value is undefined
Absent    == "absent"
Undefined == "undefined"
\* an optional input field that was not supplied
None      == "none"
\* an optional metadata field that was not supplied
NoMetadata == [undefined |-> TRUE]

\* A stored metadata object maps every key of MetaKeys to a value of
\* MetaVals or to Absent; a metadata patch maps it to a value, to Absent
\* or to Undefined.

\* The sentinel version of the draft row.  getAppVersion selects the
\* published rows with lt(AppVersion.version, DRAFT_VERSION) and orders them
\* descending, so the sentinel lies above every timestamp the clock yields.
DRAFT_VERSION == MaxClock + 1

\* config.perWorkspace.maxApps, the quota app.create enforces
maxApps == 2

\* cfg.perUser.maxWorkspaces and cfg.perWorkspace.maxMembers, the quotas
\* createWorkspace and workspace.addMember enforce
maxWorkspaces == 1
maxMembers == 2

\* rows of table User: the users that exist; u0 is an id of no user
User == {"u1", "u2", "u3"}
TargetIds == User \cup {"u0"}
\* the cursors workspace.list is called with: none, "", a workspace id
ListCursors == {{}, {0}, {1}}
Roles == {"owner", "member"}

\* defaultModels.app, the metadata a new App starts from
defaultModels == [k \in MetaKeys |-> "x"]

\* the empty object {}
EmptyObject == [k \in MetaKeys |-> Absent]

\* inputs the calls of the model are made with
MetaInputs == { [k1 |-> "y", k2 |-> Absent] }
\* (type, name) of the Apps created
CreateInputs == { <<"single-agent", "n1">>, <<"multiple-agents", "n2">> }
\* (name, metadata) of the updates made
UpdateInputs == { <<None, [k1 |-> "y", k2 |-> Absent]>>,
                  <<"n2", [k1 |-> Undefined, k2 |-> "x"]>>,
                  <<"n1", NoMetadata>> }
\* (add, remove) of the category updates made
CategoryInputs == { <<CategoryIds, {}>>, <<{}, CategoryIds>> }
CallerIds  == UserIds

----------------------------------------------------------------------------
(* Helpers of the routers *)

\* mergeWithoutUndefined(base, patch): shallow merge; a key of the patch
\* with a defined value overwrites, other keys keep the base value
mergeWithoutUndefined(base, patch) ==
    IF patch = NoMetadata THEN base
    ELSE [k \in MetaKeys |->
            IF patch[k] \in MetaVals THEN patch[k] ELSE base[k]]

\* { ...base, ...patch }: every key the patch has overwrites; a key set to
\* undefined is dropped when the object is stored as JSON
spreadMerge(base, patch) ==
    [k \in MetaKeys |->
        IF patch[k] = Absent THEN base[k]
        ELSE IF patch[k] = Undefined THEN Absent
        ELSE patch[k]]

\* the check passes for every caller
verifyWorkspaceMembership_anyone(userId, workspaceId) == TRUE

\* verifyWorkspaceMembership: the caller has a Membership row in the workspace
verifyWorkspaceMembership(userId, workspaceId) ==
    \E m \in Membership : m.workspaceId = workspaceId /\ m.userId = userId

\* getAppById: the App rows with this id (NOT_FOUND when empty)
getAppById(id) == {r \in App : r.id = id}

\* getAgentById: the Agent rows with this id (NOT_FOUND when empty)
getAgentById(id) == {r \in Agent : r.id = id}

\* getDraftVersion of agent.ts: the draft rows of an Agent
getDraftVersion(agentId) ==
    {r \in AgentVersion : r.agentId = agentId /\ r.version = DRAFT_VERSION}

\* the version argument of getAppVersion: 'draft', 'latest', a number, or
\* undefined when it is left out
Draft == [literal |-> "draft"]
Latest == [literal |-> "latest"]
NoVersion == [undefined |-> TRUE]
Number(n) == [number |-> n]
IsNumberVersion(version) == DOMAIN version = {"number"}

\* if (!version) version = 'latest': undefined and 0 are falsy
orLatest(version) ==
    IF version = NoVersion THEN Latest
    ELSE IF IsNumberVersion(version) /\ version.number = 0 THEN Latest
    ELSE version

\* 'latest' compares with gt instead of lt and so finds no published row
getAppVersion_gt(appId, version) ==
    LET selector == orLatest(version) IN
    IF selector = Draft
    THEN {r \in AppVersion : r.appId = appId /\ r.version = DRAFT_VERSION}
    ELSE IF selector = Latest
    THEN LET published == {r \in AppVersion :
                             r.appId = appId /\ r.version > DRAFT_VERSION}
         IN  {r \in published : \A q \in published : q.version <= r.version}
    ELSE {r \in AppVersion : r.appId = appId /\ r.version = selector.number}

\* getAppVersion(appId, 'draft' | 'latest' | number): the rows findFirst
\* may return (NOT_FOUND when empty)
getAppVersion(appId, version) ==
    LET selector == orLatest(version) IN
    IF selector = Draft
    THEN {r \in AppVersion : r.appId = appId /\ r.version = DRAFT_VERSION}
    ELSE IF selector = Latest
    THEN LET published == {r \in AppVersion :
                             r.appId = appId /\ r.version < DRAFT_VERSION}
         IN  {r \in published : \A q \in published : q.version <= r.version}
    ELSE {r \in AppVersion : r.appId = appId /\ r.version = selector.number}

\* appRouter.getVersion: the code and the rows findFirst may return
appGetVersion(userId, id, version) ==
    LET app == {r \in App : r.id = id}
        found == {r \in AppVersion : r.appId = id /\ r.version = version}
    IN  IF app = {} THEN [code |-> "NOT_FOUND", rows |-> {}]
        ELSE IF \E a \in app : ~verifyWorkspaceMembership(userId, a.workspaceId)
        THEN [code |-> "FORBIDDEN", rows |-> {}]
        ELSE IF found = {} THEN [code |-> "NOT_FOUND", rows |-> {}]
        ELSE [code |-> "OK", rows |-> found]

\* the table has no unique key: no insert is refused
AppVersionKeyTaken_never(appId, version) == FALSE

\* a unique-key violation: the table already holds a row with this key
AppVersionKeyTaken(appId, version) ==
    \E r \in AppVersion : r.appId = appId /\ r.version = version

AgentVersionKeyTaken(agentId, version) ==
    \E r \in AgentVersion : r.agentId = agentId /\ r.version = version

\* the id the store generates for a new row: one no stored row has
\* (None when the ids of the model are used up)
freshId(ids, used) ==
    IF ids \subseteq used THEN None ELSE CHOOSE id \in ids \ used : TRUE

\* the record of a finished call
Outcome(op, id, code, version) ==
    [op |-> op, id |-> id, code |-> code, version |-> version]

----------------------------------------------------------------------------
(* Initial state: one workspace with its owner, nothing else stored *)

PageIdle == [pc |-> "idle"]

\* no request is on its way
NoSession == [pc |-> "none"]

Init ==
    /\ App = {}
    /\ AppVersion = {}
    /\ Agent = {}
    /\ AgentVersion = {}
    /\ AppsToCategories = {}
    /\ AppsToTags = {}
    /\ Membership = {[workspaceId |-> "w1", userId |-> "u1", role |-> "owner"]}
    /\ Workspace = {[id |-> "w1"]}
    /\ Artifact = {}
    /\ ArtifactSuggestion = {}
    /\ now = 1
    /\ calls = 0
    /\ last = Outcome("none", None, "OK", 0)
    /\ page = PageIdle
    /\ inflight = {}
    /\ session = NoSession

----------------------------------------------------------------------------
(* app router *)

\* appRouter.create
AppCreate(userId, workspaceId, type, name, metadata) ==
    LET appValues == [workspaceId |-> workspaceId, type |-> type, name |-> name,
                      metadata |-> mergeWithoutUndefined(defaultModels, metadata)]
        appsCount == Cardinality({r \in App : r.workspaceId = workspaceId})
        code == IF ~verifyWorkspaceMembership(userId, workspaceId) THEN "FORBIDDEN"
                ELSE IF appsCount >= maxApps THEN "FORBIDDEN"
                ELSE "OK"
    IN
    /\ calls < MaxCalls
    /\ calls' = calls + 1
    /\ IF code = "OK"
       THEN \E id \in {freshId(AppIds, {r.id : r \in App})} \ {None} :
              /\ App' = App \cup {[id |-> id] @@ appValues}
              /\ AppVersion' = AppVersion \cup
                    {[appId |-> id, version |-> DRAFT_VERSION,
                      type |-> appValues.type, name |-> appValues.name,
                      metadata |-> appValues.metadata]}
              /\ last' = Outcome("app.create", id, "OK", 0)
       ELSE /\ UNCHANGED <<App, AppVersion>>
            /\ last' = Outcome("app.create", None, code, 0)
    /\ UNCHANGED <<Agent, AgentVersion, AppsToCategories, AppsToTags,
                   Membership, now, page, inflight, session,
                   Workspace, artifactVars>>

\* the fields app.update sets on a row: { ...update, metadata: merged };
\* a field left undefined is not written
updateValues(row, name, metadata) ==
    [row EXCEPT !.name = IF name = None THEN @ ELSE name,
                !.metadata = metadata]

\* appRouter.update
AppUpdate(userId, id, name, metadata) ==
    LET app == getAppById(id)
        draft == getAppVersion(id, Draft)
        publishedVersion == getAppVersion(id, Latest)
        code == IF app = {} THEN "NOT_FOUND"
                ELSE IF \E a \in app :
                          ~verifyWorkspaceMembership(userId, a.workspaceId)
                     THEN "FORBIDDEN"
                ELSE IF draft = {} THEN "NOT_FOUND"
                ELSE "OK"
    IN
    /\ calls < MaxCalls
    /\ calls' = calls + 1
    /\ last' = Outcome("app.update", id, code, 0)
    /\ IF code = "OK"
       THEN \E d \in draft :
              LET merged == mergeWithoutUndefined(d.metadata, metadata) IN
              /\ AppVersion' =
                   {IF r.appId = id /\ r.version = DRAFT_VERSION
                    THEN updateValues(r, name, merged) ELSE r : r \in AppVersion}
              /\ App' = IF publishedVersion = {}
                        THEN {IF r.id = id THEN updateValues(r, name, merged)
                              ELSE r : r \in App}
                        ELSE App
       ELSE UNCHANGED <<App, AppVersion>>
    /\ UNCHANGED <<Agent, AgentVersion, AppsToCategories, AppsToTags,
                   Membership, now, page, inflight, session,
                   Workspace, artifactVars>>

\* delete selects the ids of the Agents of the App by Agent.id ...
agentIdsOfApp_byId(id) == {g.id : g \in {r \in Agent : r.id = id}}

\* the ids of the Agents of the App, as delete selects them
agentIdsOfApp(id) == {g.id : g \in {r \in Agent : r.appId = id}}

\* appRouter.delete
AppDelete(userId, id) ==
    LET app == getAppById(id)
        code == IF app = {} THEN "NOT_FOUND"
                ELSE IF \E a \in app :
                          ~verifyWorkspaceMembership(userId, a.workspaceId)
                     THEN "FORBIDDEN"
                ELSE "OK"
        agentIds == agentIdsOfApp(id)
    IN
    /\ calls < MaxCalls
    /\ calls' = calls + 1
    /\ last' = Outcome("app.delete", id, code, 0)
    /\ IF code = "OK"
       THEN /\ AgentVersion' = {r \in AgentVersion : r.agentId \notin agentIds}
            /\ Agent' = {r \in Agent : r.id \notin agentIds}
            /\ AppVersion' = {r \in AppVersion : r.appId # id}
            /\ AppsToCategories' = {r \in AppsToCategories : r.appId # id}
            /\ AppsToTags' = {r \in AppsToTags : r.appId # id}
            /\ App' = {r \in App : r.id # id}
       ELSE UNCHANGED <<App, AppVersion, Agent, AgentVersion,
                        AppsToCategories, AppsToTags>>
    /\ UNCHANGED <<Membership, now, page, inflight, session,
                   Workspace, artifactVars>>

\* the timestamp wraps around within the version column
publishedVersionNumber_wrapped(clock) == (clock % MaxClock) + 1

\* the version number publish gives: Math.floor(Date.now() / 1000),
\* where clock is what Date.now() / 1000 reads during the call
publishedVersionNumber(clock) == clock

\* the join without its agentId condition: every Agent of the App with
\* every draft row
agentsWithDrafts_anyDraft(appId) ==
    {[agent |-> g, draft |-> d] :
        <<g, d>> \in {x \in Agent \X AgentVersion :
                        /\ x[1].appId = appId
                        /\ x[2].version = DRAFT_VERSION}}

\* the join of publish: every Agent of the App with its draft row
agentsWithDrafts(appId) ==
    {[agent |-> g, draft |-> d] :
        <<g, d>> \in {x \in Agent \X AgentVersion :
                        /\ x[1].appId = appId
                        /\ x[2].agentId = x[1].id
                        /\ x[2].version = DRAFT_VERSION}}

\* a CASE expression without the id condition: one draft for every Agent
caseWhenAgentId_anyAgent(items, agentId) ==
    CHOOSE d \in {i.draft : i \in items} : TRUE

\* the CASE expression of publish: the draft the Agent with this id is set to
caseWhenAgentId(items, agentId) ==
    CHOOSE d \in {i.draft : i \in {j \in items : j.agent.id = agentId}} : TRUE

\* the published row takes the default metadata instead of the draft's
publishedAppVersion_defaults(appId, version, draftVersion) ==
    [appId |-> appId, version |-> version, type |-> draftVersion.type,
     name |-> draftVersion.name, metadata |-> defaultModels]

\* the row publish inserts into AppVersion
publishedAppVersion(appId, version, draftVersion) ==
    [appId |-> appId, version |-> version, type |-> draftVersion.type,
     name |-> draftVersion.name, metadata |-> draftVersion.metadata]

\* the head row publish writes
publishedHead(row, draftVersion) ==
    [row EXCEPT !.type = draftVersion.type, !.name = draftVersion.name,
                !.metadata = draftVersion.metadata]

\* appRouter.publish
AppPublish(userId, id, clock) ==
    LET app == getAppById(id)
        draft == getAppVersion(id, Draft)
        publishedVersion == publishedVersionNumber(clock)
        items == agentsWithDrafts(id)
        agentsCount == Cardinality({r \in Agent : r.appId = id})
        agentIds == {i.agent.id : i \in items}
        code == IF app = {} THEN "NOT_FOUND"
                ELSE IF \E a \in app :
                          ~verifyWorkspaceMembership(userId, a.workspaceId)
                     THEN "FORBIDDEN"
                ELSE IF draft = {} THEN "NOT_FOUND"
                ELSE IF AppVersionKeyTaken(id, publishedVersion)
                     THEN "INTERNAL_SERVER_ERROR"
                ELSE IF Cardinality(items) # agentsCount
                     THEN "INTERNAL_SERVER_ERROR"
                ELSE IF \E g \in agentIds : AgentVersionKeyTaken(g, publishedVersion)
                     THEN "INTERNAL_SERVER_ERROR"
                ELSE "OK"
    IN
    /\ calls < MaxCalls
    /\ calls' = calls + 1
    /\ last' = Outcome("app.publish", id, code,
                       IF code = "OK" THEN publishedVersion ELSE 0)
    /\ IF code = "OK"
       THEN \E draftVersion \in draft :
              /\ AppVersion' = AppVersion \cup
                    {publishedAppVersion(id, publishedVersion, draftVersion)}
              /\ App' = {IF r.id = id THEN publishedHead(r, draftVersion)
                         ELSE r : r \in App}
              /\ AgentVersion' = AgentVersion \cup
                    {[agentId |-> i.agent.id, version |-> publishedVersion,
                      name |-> i.draft.name, metadata |-> i.draft.metadata] :
                        i \in items}
              /\ Agent' = {IF r.id \in agentIds
                           THEN [r EXCEPT
                                   !.name = caseWhenAgentId(items, r.id).name,
                                   !.metadata = caseWhenAgentId(items, r.id).metadata]
                           ELSE r : r \in Agent}
       ELSE UNCHANGED <<App, AppVersion, Agent, AgentVersion>>
    /\ now' = clock
    /\ UNCHANGED <<AppsToCategories, AppsToTags, Membership, page, inflight, session,
                   Workspace, artifactVars>>

\* appRouter.updateTags
AppUpdateTags(userId, id, tags) ==
    LET app == getAppById(id)
        code == IF app = {} THEN "NOT_FOUND"
                ELSE IF \E a \in app :
                          ~verifyWorkspaceMembership(userId, a.workspaceId)
                     THEN "FORBIDDEN"
                ELSE "OK"
    IN
    /\ calls < MaxCalls
    /\ calls' = calls + 1
    /\ last' = Outcome("app.updateTags", id, code, 0)
    /\ IF code = "OK"
       THEN AppsToTags' = {r \in AppsToTags : r.appId # id} \cup
                          {[appId |-> id, tag |-> t] : t \in tags}
       ELSE UNCHANGED AppsToTags
    /\ UNCHANGED <<App, AppVersion, Agent, AgentVersion, AppsToCategories,
                   Membership, now, page, inflight, session,
                   Workspace, artifactVars>>

\* appRouter.updateCategories
AppUpdateCategories(userId, id, add, remove) ==
    LET app == getAppById(id)
        code == IF app = {} THEN "NOT_FOUND"
                ELSE IF \E a \in app :
                          ~verifyWorkspaceMembership(userId, a.workspaceId)
                     THEN "FORBIDDEN"
                ELSE "OK"
    IN
    /\ calls < MaxCalls
    /\ calls' = calls + 1
    /\ last' = Outcome("app.updateCategories", id, code, 0)
    /\ IF code = "OK"
       THEN AppsToCategories' =
              {r \in AppsToCategories : ~(r.appId = id /\ r.categoryId \in remove)}
              \cup {[appId |-> id, categoryId |-> c] : c \in add}
       ELSE UNCHANGED AppsToCategories
    /\ UNCHANGED <<App, AppVersion, Agent, AgentVersion, AppsToTags,
                   Membership, now, page, inflight, session,
                   Workspace, artifactVars>>

----------------------------------------------------------------------------
(* agent router *)

\* the draft row is written with the version of a first publish
agentDraftVersion_unversioned(agentId, name, metadata) ==
    [agentId |-> agentId, version |-> 1, name |-> name,
     metadata |-> IF metadata = NoMetadata THEN EmptyObject ELSE metadata]

\* the draft row agent.create inserts: metadata ?? {} (the head row takes
\* the column default, the empty object, when no metadata is given)
agentDraftVersion(agentId, name, metadata) ==
    [agentId |-> agentId, version |-> DRAFT_VERSION, name |-> name,
     metadata |-> IF metadata = NoMetadata THEN EmptyObject ELSE metadata]

\* agentRouter.create; userId is ctx.auth.userId, which the procedure does
\* not read
AgentCreate(userId, appId, name, metadata) ==
    LET code == IF getAppById(appId) = {} THEN "NOT_FOUND" ELSE "OK" IN
    /\ calls < MaxCalls
    /\ calls' = calls + 1
    /\ IF code = "OK"
       THEN \E id \in {freshId(AgentIds, {r.id : r \in Agent})} \ {None} :
              /\ Agent' = Agent \cup
                    {[id |-> id, appId |-> appId, name |-> name,
                      metadata |-> IF metadata = NoMetadata
                                   THEN EmptyObject ELSE metadata]}
              /\ AgentVersion' = AgentVersion \cup
                    {agentDraftVersion(id, name, metadata)}
              /\ last' = Outcome("agent.create", id, "OK", 0)
       ELSE /\ UNCHANGED <<Agent, AgentVersion>>
            /\ last' = Outcome("agent.create", None, code, 0)
    /\ UNCHANGED <<App, AppVersion, AppsToCategories, AppsToTags,
                   Membership, now, page, inflight, session,
                   Workspace, artifactVars>>

\* agentRouter.update; userId is ctx.auth.userId, which the procedure does
\* not read
AgentUpdate(userId, id, name, metadata) ==
    LET agent == getAgentById(id)
        draft == getDraftVersion(id)
        code == IF agent = {} THEN "NOT_FOUND"
                ELSE IF draft = {} THEN "NOT_FOUND"
                ELSE "OK"
    IN
    /\ calls < MaxCalls
    /\ calls' = calls + 1
    /\ last' = Outcome("agent.update", id, code, 0)
    /\ IF code = "OK"
       THEN \E d \in draft :
              LET merged == IF metadata = NoMetadata THEN d.metadata
                            ELSE spreadMerge(d.metadata, metadata) IN
              AgentVersion' =
                 {IF r.agentId = id /\ r.version = DRAFT_VERSION
                  THEN updateValues(r, name, merged) ELSE r : r \in AgentVersion}
       ELSE UNCHANGED AgentVersion
    /\ UNCHANGED <<App, AppVersion, Agent, AppsToCategories, AppsToTags,
                   Membership, now, page, inflight, session,
                   Workspace, artifactVars>>

----------------------------------------------------------------------------
Next ==
    \/ \E u \in CallerIds, w \in WorkspaceIds, c \in CreateInputs,
          m \in MetaInputs \cup {NoMetadata} : AppCreate(u, w, c[1], c[2], m)
    \/ \E u \in CallerIds, id \in AppIds, i \in UpdateInputs :
          AppUpdate(u, id, i[1], i[2])
    \/ \E u \in CallerIds, id \in AppIds, t \in 1..MaxClock : AppPublish(u, id, t)
    \/ \E u \in CallerIds, id \in AppIds : AppDelete(u, id)
    \/ \E u \in CallerIds, id \in AppIds, ts \in SUBSET TagNames :
          AppUpdateTags(u, id, ts)
    \/ \E u \in CallerIds, id \in AppIds, c \in CategoryInputs :
          AppUpdateCategories(u, id, c[1], c[2])
    \/ \E u \in CallerIds, a \in AppIds, n \in Names,
          m \in MetaInputs \cup {NoMetadata} : AgentCreate(u, a, n, m)
    \/ \E u \in CallerIds, g \in AgentIds, i \in UpdateInputs :
          AgentUpdate(u, g, i[1], i[2])

Spec == Init /\ [][Next]_vars

\* the same calls under a clock that never regresses
NextMono ==
    \/ \E u \in CallerIds, w \in WorkspaceIds, c \in CreateInputs,
          m \in MetaInputs \cup {NoMetadata} : AppCreate(u, w, c[1], c[2], m)
    \/ \E u \in CallerIds, id \in AppIds, i \in UpdateInputs :
          AppUpdate(u, id, i[1], i[2])
    \/ \E u \in CallerIds, id \in AppIds, t \in now..MaxClock : AppPublish(u, id, t)
    \/ \E u \in CallerIds, id \in AppIds : AppDelete(u, id)
    \/ \E u \in CallerIds, id \in AppIds, ts \in SUBSET TagNames :
          AppUpdateTags(u, id, ts)
    \/ \E u \in CallerIds, id \in AppIds, c \in CategoryInputs :
          AppUpdateCategories(u, id, c[1], c[2])
    \/ \E u \in CallerIds, a \in AppIds, n \in Names,
          m \in MetaInputs \cup {NoMetadata} : AgentCreate(u, a, n, m)
    \/ \E u \in CallerIds, g \in AgentIds, i \in UpdateInputs :
          AgentUpdate(u, g, i[1], i[2])

SpecMono == Init /\ [][NextMono]_vars

\* A store that was damaged outside the routers: App a1 with two Agents, of
\* which some have lost their draft row.  No procedure of the routers
\* removes a draft row, so publish meets such a store only after a repair
\* or migration went wrong; its check for missing drafts is made for it.
InitDamaged ==
    /\ App = {[id |-> "a1", workspaceId |-> "w1", type |-> "single-agent",
               name |-> "n1", metadata |-> defaultModels]}
    /\ AppVersion = {[appId |-> "a1", version |-> DRAFT_VERSION,
                      type |-> "single-agent", name |-> "n2",
                      metadata |-> defaultModels]}
    /\ Agent = {[id |-> g, appId |-> "a1", name |-> "n1",
                 metadata |-> EmptyObject] : g \in AgentIds}
    /\ \E missing \in SUBSET AgentIds :
          AgentVersion = {agentDraftVersion(g, "n2", NoMetadata) :
                            g \in AgentIds \ missing}
    /\ AppsToCategories = {}
    /\ AppsToTags = {}
    /\ Membership = {[workspaceId |-> "w1", userId |-> "u1", role |-> "owner"]}
    /\ Workspace = {[id |-> "w1"]}
    /\ Artifact = {}
    /\ ArtifactSuggestion = {}
    /\ now = 1
    /\ calls = 0
    /\ last = Outcome("none", None, "OK", 0)
    /\ page = PageIdle
    /\ inflight = {}
    /\ session = NoSession

\* the calls that meet the damaged store: edits of the drafts that are
\* left, and publish
NextDamaged ==
    \/ \E u \in CallerIds, id \in AppIds, i \in UpdateInputs :
          AppUpdate(u, id, i[1], i[2])
    \/ \E u \in CallerIds, id \in AppIds, t \in 1..MaxClock : AppPublish(u, id, t)
    \/ \E u \in CallerIds, g \in AgentIds, i \in UpdateInputs :
          AgentUpdate(u, g, i[1], i[2])

SpecDamaged == InitDamaged /\ [][NextDamaged]_vars

----------------------------------------------------------------------------
(* workspace router *)

\* An optional cursor is the empty set or a singleton; the empty string is 0.
\* if (input.after): the cursor is neither undefined nor "" nor 0
Truthy(cursor) == \E c \in cursor : c # 0

\* the refine of workspace.list and workspace.listMembers
refineCursors(after, before) == ~(Truthy(after) /\ Truthy(before))

\* the role of the caller's Membership row: memberships[0]?.role
roleOf(userId, workspaceId) ==
    {m.role : m \in {r \in Membership :
                       r.workspaceId = workspaceId /\ r.userId = userId}}

\* count() of the Membership rows of a user / of a workspace
userWorkspacesCount(userId) ==
    Cardinality({m \in Membership : m.userId = userId})
membersCount(workspaceId) ==
    Cardinality({m \in Membership : m.workspaceId = workspaceId})

\* a unique-key violation on Membership (workspaceId, userId)
MembershipKeyTaken(workspaceId, userId) ==
    \E m \in Membership : m.workspaceId = workspaceId /\ m.userId = userId

\* the quota check compares with > instead of >=
createWorkspaceCode_gt(userId) ==
    IF userWorkspacesCount(userId) > maxWorkspaces THEN "FORBIDDEN" ELSE "OK"

\* createWorkspace: the outcome of its quota check
createWorkspaceCode(userId) ==
    IF userWorkspacesCount(userId) >= maxWorkspaces THEN "FORBIDDEN" ELSE "OK"

\* the Workspace row is inserted without its owner Membership
createWorkspace_workspaceOnly(userId, id) ==
    /\ Workspace' = Workspace \cup {[id |-> id]}
    /\ Membership' = Membership

\* createWorkspace: the Workspace row and the owner Membership it inserts
createWorkspace(userId, id) ==
    /\ Workspace' = Workspace \cup {[id |-> id]}
    /\ Membership' = Membership \cup
          {[workspaceId |-> id, userId |-> userId, role |-> "owner"]}

\* the id of a new workspace: one that no stored row refers to
freshWorkspaceId ==
    freshId(WorkspaceIds, {w.id : w \in Workspace}
                          \cup {m.workspaceId : m \in Membership}
                          \cup {a.workspaceId : a \in App})

\* workspaceRouter.create
WorkspaceCreate(userId) ==
    LET code == createWorkspaceCode(userId) IN
    /\ calls < MaxCalls
    /\ calls' = calls + 1
    /\ IF code = "OK"
       THEN \E id \in {freshWorkspaceId} \ {None} :
              /\ createWorkspace(userId, id)
              /\ last' = Outcome("workspace.create", id, "OK", 0)
       ELSE /\ UNCHANGED <<Workspace, Membership>>
            /\ last' = Outcome("workspace.create", None, code, 0)
    /\ UNCHANGED <<appVars, artifactVars, now, page, inflight, session>>

\* workspaceRouter.list: a caller for whom the query finds no workspace and
\* who gave no truthy cursor gets a personal workspace created (the page
\* itself is what workspaceList computes; with a truthy cursor the rows
\* found do not matter for the writes)
WorkspaceList(userId, after, before) ==
    LET workspaces == {m \in Membership : m.userId = userId}
        create == ~Truthy(after) /\ ~Truthy(before) /\ workspaces = {}
        code == IF ~refineCursors(after, before) THEN "BAD_REQUEST"
                ELSE IF create THEN createWorkspaceCode(userId)
                ELSE "OK"
    IN
    /\ calls < MaxCalls
    /\ calls' = calls + 1
    /\ IF create /\ code = "OK"
       THEN \E id \in {freshWorkspaceId} \ {None} :
              /\ createWorkspace(userId, id)
              /\ last' = Outcome("workspace.list", id, "OK", 0)
       ELSE /\ UNCHANGED <<Workspace, Membership>>
            /\ last' = Outcome("workspace.list", None, code, 0)
    /\ UNCHANGED <<appVars, artifactVars, now, page, inflight, session>>

\* workspaceRouter.delete
WorkspaceDelete(userId, id) ==
    LET code == IF roleOf(userId, id) # {"owner"} THEN "FORBIDDEN" ELSE "OK" IN
    /\ calls < MaxCalls
    /\ calls' = calls + 1
    /\ last' = Outcome("workspace.delete", id, code, 0)
    /\ IF code = "OK"
       THEN /\ Membership' = {m \in Membership : m.workspaceId # id}
            /\ Workspace' = {w \in Workspace : w.id # id}
       ELSE UNCHANGED <<Workspace, Membership>>
    /\ UNCHANGED <<appVars, artifactVars, now, page, inflight, session>>

\* workspaceRouter.addMember
WorkspaceAddMember(caller, workspaceId, userId, role) ==
    LET code == IF roleOf(caller, workspaceId) # {"owner"} THEN "FORBIDDEN"
                ELSE IF membersCount(workspaceId) >= maxMembers THEN "FORBIDDEN"
                ELSE IF userWorkspacesCount(userId) >= maxWorkspaces
                     THEN "FORBIDDEN"
                ELSE IF userId \notin User THEN "NOT_FOUND"
                ELSE IF role # "member" THEN "BAD_REQUEST"
                ELSE IF MembershipKeyTaken(workspaceId, userId)
                     THEN "INTERNAL_SERVER_ERROR"
                ELSE "OK"
    IN
    /\ calls < MaxCalls
    /\ calls' = calls + 1
    /\ last' = Outcome("workspace.addMember", workspaceId, code, 0)
    /\ IF code = "OK"
       THEN Membership' = Membership \cup
               {[workspaceId |-> workspaceId, userId |-> userId, role |-> role]}
       ELSE UNCHANGED Membership
    /\ UNCHANGED <<Workspace, appVars, artifactVars, now, page, inflight, session>>

\* workspaceRouter.deleteMember
WorkspaceDeleteMember(caller, workspaceId, userId) ==
    LET code == IF roleOf(caller, workspaceId) # {"owner"} THEN "FORBIDDEN"
                ELSE IF userId = caller THEN "FORBIDDEN"
                ELSE "OK"
    IN
    /\ calls < MaxCalls
    /\ calls' = calls + 1
    /\ last' = Outcome("workspace.deleteMember", workspaceId, code, 0)
    /\ IF code = "OK"
       THEN Membership' = {m \in Membership :
                             ~(m.workspaceId = workspaceId /\ m.userId = userId)}
       ELSE UNCHANGED Membership
    /\ UNCHANGED <<Workspace, appVars, artifactVars, now, page, inflight, session>>

\* the update without the userId condition: every row of the workspace
setRole_everyone(rows, workspaceId, userId, role) ==
    {IF m.workspaceId = workspaceId
     THEN [m EXCEPT !.role = role] ELSE m : m \in rows}

\* set({ role }) where workspaceId and userId match
setRole(rows, workspaceId, userId, role) ==
    {IF m.workspaceId = workspaceId /\ m.userId = userId
     THEN [m EXCEPT !.role = role] ELSE m : m \in rows}

\* the transfer without its first update: the old owner keeps the role
demoteCurrentOwner_skipped(rows, workspaceId, caller) == rows

\* transferOwner, first update: the current owner becomes a member
demoteCurrentOwner(rows, workspaceId, caller) ==
    setRole(rows, workspaceId, caller, "member")

\* workspaceRouter.transferOwner
WorkspaceTransferOwner(caller, workspaceId, userId) ==
    LET code == IF roleOf(caller, workspaceId) # {"owner"} THEN "FORBIDDEN"
                ELSE IF ~MembershipKeyTaken(workspaceId, userId) THEN "NOT_FOUND"
                ELSE "OK"
    IN
    /\ calls < MaxCalls
    /\ calls' = calls + 1
    /\ last' = Outcome("workspace.transferOwner", workspaceId, code, 0)
    /\ IF code = "OK"
       THEN Membership' =
               setRole(demoteCurrentOwner(Membership, workspaceId, caller),
                       workspaceId, userId, "owner")
       ELSE UNCHANGED Membership
    /\ UNCHANGED <<Workspace, appVars, artifactVars, now, page, inflight, session>>

NextWorkspace ==
    \/ \E u \in User : WorkspaceCreate(u)
    \/ \E u \in User, after \in ListCursors, before \in ListCursors :
          WorkspaceList(u, after, before)
    \/ \E u \in User, w \in WorkspaceIds : WorkspaceDelete(u, w)
    \/ \E u \in User, w \in WorkspaceIds, t \in TargetIds, r \in Roles :
          WorkspaceAddMember(u, w, t, r)
    \/ \E u \in User, w \in WorkspaceIds, t \in TargetIds :
          WorkspaceDeleteMember(u, w, t)
    \/ \E u \in User, w \in WorkspaceIds, t \in TargetIds :
          WorkspaceTransferOwner(u, w, t)
    \/ \E u \in User, w \in WorkspaceIds :
          AppCreate(u, w, "single-agent", "n1", NoMetadata)

SpecWorkspace == Init /\ [][NextWorkspace]_vars

----------------------------------------------------------------------------
(* concurrent calls.  Each call runs on its own and awaits between its       *)
(* statements, so another call can run between the reads and checks a       *)
(* handler makes first and the transaction, or the single write, it ends    *)
(* with.  A call is two steps: Begin makes the handler's reads up to its    *)
(* transaction and keeps what they returned, Commit runs the transaction    *)
(* as one step on the store as it is then.  A transaction is taken as       *)
(* atomic and the reads before it as one step; finer interleavings only     *)
(* add behaviours.                                                          *)

\* a call that has passed its checks: what the handler holds in its locals
Request(op, userId, id, target, name, rows, published) ==
    [op |-> op, userId |-> userId, id |-> id, target |-> target,
     name |-> name, rows |-> rows, published |-> published]

\* the store of a workspace in use: App a1 of w1, owner u1 and member u2
InitRace ==
    /\ App = {[id |-> "a1", workspaceId |-> "w1", type |-> "single-agent",
               name |-> "n1", metadata |-> defaultModels]}
    /\ AppVersion = {[appId |-> "a1", version |-> DRAFT_VERSION,
                      type |-> "single-agent", name |-> "n1",
                      metadata |-> defaultModels]}
    /\ Agent = {}
    /\ AgentVersion = {}
    /\ AppsToCategories = {}
    /\ AppsToTags = {}
    /\ Membership = {[workspaceId |-> "w1", userId |-> "u1", role |-> "owner"],
                     [workspaceId |-> "w1", userId |-> "u2", role |-> "member"]}
    /\ Workspace = {[id |-> "w1"]}
    /\ Artifact = {}
    /\ ArtifactSuggestion = {}
    /\ now = 1
    /\ calls = 0
    /\ last = Outcome("none", None, "OK", 0)
    /\ page = PageIdle
    /\ inflight = {}
    /\ session = NoSession

\* a call starts: it either fails its checks or awaits its write
Begin(op, id, code, request) ==
    /\ calls < MaxCalls
    /\ calls' = calls + 1
    /\ IF code = "OK"
       THEN /\ inflight' = inflight \cup {request}
            /\ UNCHANGED last
       ELSE /\ last' = Outcome(op, id, code, 0)
            /\ UNCHANGED inflight
    /\ UNCHANGED <<appVars, Membership, Workspace, artifactVars, now, page, session>>

\* appRouter.update up to its transaction
AppUpdateBegin(userId, id, name, metadata) ==
    LET app == getAppById(id)
        draft == getAppVersion(id, Draft)
        publishedVersion == getAppVersion(id, Latest)
        code == IF app = {} THEN "NOT_FOUND"
                ELSE IF \E a \in app :
                          ~verifyWorkspaceMembership(userId, a.workspaceId)
                     THEN "FORBIDDEN"
                ELSE IF draft = {} THEN "NOT_FOUND"
                ELSE "OK"
        merged == {[d EXCEPT !.metadata = mergeWithoutUndefined(@, metadata)] :
                     d \in draft}
    IN  Begin("app.update", id, code,
              Request("app.update", userId, id, None, name, merged,
                      publishedVersion # {}))

\* the transaction of appRouter.update
AppUpdateCommit(r) ==
    LET updatedDraft == {x \in AppVersion :
                           x.appId = r.id /\ x.version = DRAFT_VERSION}
        newApp == {x \in App : x.id = r.id}
        code == IF updatedDraft = {} THEN "INTERNAL_SERVER_ERROR"
                ELSE IF ~r.published /\ newApp = {} THEN "INTERNAL_SERVER_ERROR"
                ELSE "OK"
    IN
    /\ r \in inflight
    /\ r.op = "app.update"
    /\ inflight' = inflight \ {r}
    /\ last' = Outcome("app.update", r.id, code, 0)
    /\ IF code = "OK"
       THEN \E v \in r.rows :
              /\ AppVersion' =
                   {IF x.appId = r.id /\ x.version = DRAFT_VERSION
                    THEN updateValues(x, r.name, v.metadata) ELSE x :
                      x \in AppVersion}
              /\ App' = IF ~r.published
                        THEN {IF x.id = r.id
                              THEN updateValues(x, r.name, v.metadata)
                              ELSE x : x \in App}
                        ELSE App
       ELSE UNCHANGED <<App, AppVersion>>
    /\ UNCHANGED <<Agent, AgentVersion, AppsToCategories, AppsToTags,
                   Membership, Workspace, artifactVars, now, calls, page, session>>

\* appRouter.publish up to its transaction
AppPublishBegin(userId, id) ==
    LET app == getAppById(id)
        draft == getAppVersion(id, Draft)
        code == IF app = {} THEN "NOT_FOUND"
                ELSE IF \E a \in app :
                          ~verifyWorkspaceMembership(userId, a.workspaceId)
                     THEN "FORBIDDEN"
                ELSE IF draft = {} THEN "NOT_FOUND"
                ELSE "OK"
    IN  Begin("app.publish", id, code,
              Request("app.publish", userId, id, None, None, draft, FALSE))

\* the transaction of appRouter.publish, under a clock that does not regress
AppPublishCommit(r, clock) ==
    LET publishedVersion == publishedVersionNumber(clock)
        items == agentsWithDrafts(r.id)
        agentsCount == Cardinality({x \in Agent : x.appId = r.id})
        agentIds == {i.agent.id : i \in items}
        code == IF AppVersionKeyTaken(r.id, publishedVersion)
                THEN "INTERNAL_SERVER_ERROR"
                ELSE IF Cardinality(items) # agentsCount
                     THEN "INTERNAL_SERVER_ERROR"
                ELSE IF \E g \in agentIds : AgentVersionKeyTaken(g, publishedVersion)
                     THEN "INTERNAL_SERVER_ERROR"
                ELSE "OK"
    IN
    /\ r \in inflight
    /\ r.op = "app.publish"
    /\ clock >= now
    /\ inflight' = inflight \ {r}
    /\ last' = Outcome("app.publish", r.id, code,
                       IF code = "OK" THEN publishedVersion ELSE 0)
    /\ IF code = "OK"
       THEN \E draftVersion \in r.rows :
              /\ AppVersion' = AppVersion \cup
                    {publishedAppVersion(r.id, publishedVersion, draftVersion)}
              /\ App' = {IF x.id = r.id THEN publishedHead(x, draftVersion)
                         ELSE x : x \in App}
              /\ AgentVersion' = AgentVersion \cup
                    {[agentId |-> i.agent.id, version |-> publishedVersion,
                      name |-> i.draft.name, metadata |-> i.draft.metadata] :
                        i \in items}
              /\ Agent' = {IF x.id \in agentIds
                           THEN [x EXCEPT
                                   !.name = caseWhenAgentId(items, x.id).name,
                                   !.metadata = caseWhenAgentId(items, x.id).metadata]
                           ELSE x : x \in Agent}
       ELSE UNCHANGED <<App, AppVersion, Agent, AgentVersion>>
    /\ now' = clock
    /\ UNCHANGED <<AppsToCategories, AppsToTags, Membership, Workspace,
                   artifactVars, calls, page, session>>

\* appRouter.delete up to its transaction
AppDeleteBegin(userId, id) ==
    LET app == getAppById(id)
        code == IF app = {} THEN "NOT_FOUND"
                ELSE IF \E a \in app :
                          ~verifyWorkspaceMembership(userId, a.workspaceId)
                     THEN "FORBIDDEN"
                ELSE "OK"
    IN  Begin("app.delete", id, code,
              Request("app.delete", userId, id, None, None, {}, FALSE))

\* the transaction of appRouter.delete
AppDeleteCommit(r) ==
    LET agentIds == agentIdsOfApp(r.id) IN
    /\ r \in inflight
    /\ r.op = "app.delete"
    /\ inflight' = inflight \ {r}
    /\ last' = Outcome("app.delete", r.id, "OK", 0)
    /\ AgentVersion' = {x \in AgentVersion : x.agentId \notin agentIds}
    /\ Agent' = {x \in Agent : x.id \notin agentIds}
    /\ AppVersion' = {x \in AppVersion : x.appId # r.id}
    /\ AppsToCategories' = {x \in AppsToCategories : x.appId # r.id}
    /\ AppsToTags' = {x \in AppsToTags : x.appId # r.id}
    /\ App' = {x \in App : x.id # r.id}
    /\ UNCHANGED <<Membership, Workspace, artifactVars, now, calls, page, session>>

\* agentRouter.create up to its transaction: the App is looked up
AgentCreateBegin(userId, appId, name) ==
    LET code == IF getAppById(appId) = {} THEN "NOT_FOUND" ELSE "OK" IN
    Begin("agent.create", None, code,
          Request("agent.create", userId, appId, None, name, {}, FALSE))

\* the transaction of agentRouter.create: the Agent row and its draft
AgentCreateCommit(r) ==
    /\ r \in inflight
    /\ r.op = "agent.create"
    /\ inflight' = inflight \ {r}
    /\ \E id \in {freshId(AgentIds, {x.id : x \in Agent})} \ {None} :
          /\ Agent' = Agent \cup
                {[id |-> id, appId |-> r.id, name |-> r.name,
                  metadata |-> EmptyObject]}
          /\ AgentVersion' = AgentVersion \cup
                {agentDraftVersion(id, r.name, NoMetadata)}
          /\ last' = Outcome("agent.create", id, "OK", 0)
    /\ UNCHANGED <<App, AppVersion, AppsToCategories, AppsToTags, Membership,
                   Workspace, artifactVars, now, calls, page, session>>

\* workspaceRouter.deleteMember up to its delete: the two checks
DeleteMemberBegin(caller, workspaceId, userId) ==
    LET code == IF roleOf(caller, workspaceId) # {"owner"} THEN "FORBIDDEN"
                ELSE IF userId = caller THEN "FORBIDDEN"
                ELSE "OK"
    IN  Begin("workspace.deleteMember", workspaceId, code,
              Request("workspace.deleteMember", caller, workspaceId, userId,
                      None, {}, FALSE))

\* the delete of workspaceRouter.deleteMember
DeleteMemberCommit(r) ==
    /\ r \in inflight
    /\ r.op = "workspace.deleteMember"
    /\ inflight' = inflight \ {r}
    /\ last' = Outcome("workspace.deleteMember", r.id, "OK", 0)
    /\ Membership' = {m \in Membership :
                        ~(m.workspaceId = r.id /\ m.userId = r.target)}
    /\ UNCHANGED <<Workspace, appVars, artifactVars, now, calls, page, session>>

\* workspaceRouter.addMember up to its insert: the checks, role 'member'
AddMemberBegin(caller, workspaceId, userId) ==
    LET code == IF roleOf(caller, workspaceId) # {"owner"} THEN "FORBIDDEN"
                ELSE IF membersCount(workspaceId) >= maxMembers THEN "FORBIDDEN"
                ELSE IF userWorkspacesCount(userId) >= maxWorkspaces
                     THEN "FORBIDDEN"
                ELSE IF userId \notin User THEN "NOT_FOUND"
                ELSE "OK"
    IN  Begin("workspace.addMember", workspaceId, code,
              Request("workspace.addMember", caller, workspaceId, userId,
                      None, {}, FALSE))

\* the insert of workspaceRouter.addMember
AddMemberCommit(r) ==
    LET code == IF MembershipKeyTaken(r.id, r.target)
                THEN "INTERNAL_SERVER_ERROR" ELSE "OK"
    IN
    /\ r \in inflight
    /\ r.op = "workspace.addMember"
    /\ inflight' = inflight \ {r}
    /\ last' = Outcome("workspace.addMember", r.id, code, 0)
    /\ IF code = "OK"
       THEN Membership' = Membership \cup
               {[workspaceId |-> r.id, userId |-> r.target, role |-> "member"]}
       ELSE UNCHANGED Membership
    /\ UNCHANGED <<Workspace, appVars, artifactVars, now, calls, page, session>>

\* concurrent calls of the app and agent routers, with deleteMember
NextRace ==
    \/ \E u \in UserIds, id \in AppIds, i \in UpdateInputs :
          AppUpdateBegin(u, id, i[1], i[2])
    \/ \E r \in inflight : AppUpdateCommit(r)
    \/ \E u \in UserIds, id \in AppIds : AppPublishBegin(u, id)
    \/ \E r \in inflight, t \in 1..MaxClock : AppPublishCommit(r, t)
    \/ \E u \in UserIds, id \in AppIds : AppDeleteBegin(u, id)
    \/ \E r \in inflight : AppDeleteCommit(r)
    \/ \E u \in UserIds, id \in AppIds : AgentCreateBegin(u, id, "n1")
    \/ \E r \in inflight : AgentCreateCommit(r)
    \/ \E u \in UserIds, t \in UserIds : DeleteMemberBegin(u, "w1", t)
    \/ \E r \in inflight : DeleteMemberCommit(r)

SpecRace == InitRace /\ [][NextRace]_vars

\* concurrent calls of the workspace router on one workspace; transferOwner
\* is one transaction from its first read on
NextRaceWorkspace ==
    \/ \E u \in UserIds, t \in User : DeleteMemberBegin(u, "w1", t)
    \/ \E r \in inflight : DeleteMemberCommit(r)
    \/ \E u \in UserIds, t \in User : AddMemberBegin(u, "w1", t)
    \/ \E r \in inflight : AddMemberCommit(r)
    \/ \E u \in UserIds, t \in User : WorkspaceTransferOwner(u, "w1", t)

SpecRaceWorkspace == InitRace /\ [][NextRaceWorkspace]_vars

----------------------------------------------------------------------------
(* authentication: the middleware, auth() and checkAppUser.  A header is a  *)
(* set, empty when the request does not carry it; so are the optional       *)
(* fields of Auth.                                                          *)

\* X-APP-ID, X-AUTH-TYPE and the token of 'Authorization: Bearer <token>'
AppIdHeaders == {{}, {"a1"}, {"a2"}, {"a9"}}
AuthTypes == {{}, {"API-KEY"}, {"OAUTH"}, {"BASIC"}}
Tokens == {{}, {"k1"}, {"k2"}, {"t1"}, {"bad"}}

\* what clerkAuth() gives: nobody signed in, a user, an admin of the
\* admin organization
ClerkAuths ==
    {[userId |-> {}, isAdmin |-> FALSE],
     [userId |-> {"u1"}, isAdmin |-> FALSE],
     [userId |-> {"u1"}, isAdmin |-> TRUE]}

\* a value of type Auth; isAdmin FALSE is the field left out
Auth(userId, isAdmin, appId) ==
    [userId |-> userId, isAdmin |-> isAdmin, appId |-> appId]

\* what authForApi returns: an Auth, a Response with status 401, undefined
Returned(kind, auth) == [kind |-> kind, auth |-> auth]
NoAuth == Auth({}, FALSE, {})
Unauthorized == Returned("response", NoAuth)
PassThrough == Returned("undefined", NoAuth)

\* getAppIdByApiKey: key k1 is a key of App a1, k2 of App a2
getAppIdByApiKey(token) ==
    IF token = {"k1"} THEN {"a1"}
    ELSE IF token = {"k2"} THEN {"a2"}
    ELSE {}

\* the Apps with an OAuthApp row whose Clerk application has a secret
OAuthApp == {"a1"}

\* the answer of the token introspection endpoint: t1 is an active access
\* token of user u2
TokenInfo(token) ==
    IF token = {"t1"} THEN [active |-> TRUE, sub |-> {"u2"}]
    ELSE [active |-> FALSE, sub |-> {}]

\* authForApi
authForApi(heads) ==
    IF heads.token = {} THEN PassThrough
    ELSE IF heads.authType \in {{}, {"API-KEY"}}
    THEN LET gotAppId == getAppIdByApiKey(heads.token) IN
         IF gotAppId = {}
         THEN IF heads.authType # {} THEN Unauthorized ELSE PassThrough
         ELSE IF heads.appId # {} /\ heads.appId # gotAppId THEN Unauthorized
         ELSE Returned("auth", Auth({}, FALSE, gotAppId))
    ELSE IF heads.authType = {"OAUTH"}
    THEN IF heads.appId = {} THEN Unauthorized
         ELSE IF ~(heads.appId \subseteq OAuthApp) THEN Unauthorized
         ELSE IF ~TokenInfo(heads.token).active THEN Unauthorized
         ELSE Returned("auth", Auth(TokenInfo(heads.token).sub, FALSE, heads.appId))
    ELSE Unauthorized

\* authForUser: a given X-APP-ID must name a stored App
authForUser(heads) ==
    IF \E a \in heads.appId : getAppById(a) = {}
    THEN Unauthorized ELSE PassThrough

\* authForAdmin
authForAdmin(clerk) == Auth(clerk.userId, clerk.isAdmin, {})

\* auth(): the Auth of the tRPC context
auth(heads, clerk) ==
    LET r == authForApi(heads) IN
    IF r.kind = "auth" THEN r.auth
    ELSE IF heads.appId # {} THEN Auth(authForAdmin(clerk).userId, FALSE, heads.appId)
    ELSE authForAdmin(clerk)

\* the check without its first return: an Auth without userId is checked
\* like the others
checkAppUser_everyAuth(a, appId) ==
    IF a.appId # {} /\ a.appId # {appId} THEN "UNAUTHORIZED" ELSE "OK"

\* checkAppUser: the code it throws, OK when it returns
checkAppUser(a, appId) ==
    IF a.userId = {} THEN "OK"
    ELSE IF a.appId # {} /\ a.appId # {appId} THEN "UNAUTHORIZED"
    ELSE "OK"

Session(pc, heads, clerk, a, appId, result) ==
    [pc |-> pc, heads |-> heads, clerk |-> clerk, auth |-> a,
     appId |-> appId, result |-> result]

\* a request to an API route arrives at a store with Apps a1 and a2
InitAuth ==
    /\ App = {[id |-> id, workspaceId |-> "w1", type |-> "single-agent",
               name |-> "n1", metadata |-> defaultModels] : id \in AppIds}
    /\ AppVersion = {[appId |-> id, version |-> DRAFT_VERSION,
                      type |-> "single-agent", name |-> "n1",
                      metadata |-> defaultModels] : id \in AppIds}
    /\ Agent = {}
    /\ AgentVersion = {}
    /\ AppsToCategories = {}
    /\ AppsToTags = {}
    /\ Membership = {[workspaceId |-> "w1", userId |-> "u1", role |-> "owner"]}
    /\ Workspace = {[id |-> "w1"]}
    /\ Artifact = {}
    /\ ArtifactSuggestion = {}
    /\ now = 1
    /\ calls = 0
    /\ last = Outcome("none", None, "OK", 0)
    /\ page = PageIdle
    /\ inflight = {}
    /\ \E appId \in AppIdHeaders, authType \in AuthTypes, token \in Tokens,
          clerk \in ClerkAuths :
          session = Session("new",
                            [appId |-> appId, authType |-> authType,
                             token |-> token],
                            clerk, NoAuth, None, "none")

\* the middleware on an API route: the request is answered 401 (or sent to
\* sign in) or goes on to the handler
Middleware ==
    LET r == authForApi(session.heads)
        passed == IF r.kind = "response" THEN FALSE
                  ELSE IF r.kind = "auth" THEN TRUE
                  ELSE IF session.clerk.userId = {} THEN FALSE
                  ELSE authForUser(session.heads).kind # "response"
    IN
    /\ session.pc = "new"
    /\ session' = [session EXCEPT !.pc = IF passed THEN "passed" ELSE "rejected"]
    /\ UNCHANGED <<App, AppVersion, Agent, AgentVersion, AppsToCategories,
                   AppsToTags, Membership, Workspace, Artifact,
                   ArtifactSuggestion, now, calls, last, page, inflight>>

\* createTRPCContext: ctx.auth = await auth()
CreateContext ==
    /\ session.pc = "passed"
    /\ session' = [session EXCEPT !.pc = "context",
                                  !.auth = auth(session.heads, session.clerk)]
    /\ UNCHANGED <<App, AppVersion, Agent, AgentVersion, AppsToCategories,
                   AppsToTags, Membership, Workspace, Artifact,
                   ArtifactSuggestion, now, calls, last, page, inflight>>

\* a handler calls checkAppUser(ctx.auth, appId)
CheckAppUser(appId) ==
    /\ session.pc = "context"
    /\ session' = [session EXCEPT !.pc = "checked", !.appId = appId,
                                  !.result = checkAppUser(session.auth, appId)]
    /\ UNCHANGED <<App, AppVersion, Agent, AgentVersion, AppsToCategories,
                   AppsToTags, Membership, Workspace, Artifact,
                   ArtifactSuggestion, now, calls, last, page, inflight>>

NextAuth ==
    \/ Middleware
    \/ CreateContext
    \/ \E appId \in AppIds : CheckAppUser(appId)

SpecAuth == InitAuth /\ [][NextAuth]_vars

----------------------------------------------------------------------------
(* artifact router.  No procedure in the sources inserts Artifact rows, so  *)
(* the chains exist from the start: versions 1..n of each artifact id, all *)
(* rows of an id with the same userId, and suggestions on stored versions.  *)
(* A call on an id no chain has is a call on "r1" with no versions.         *)

ArtifactIds == {"r1", "r2"}

\* the user whose chat produced the artifact
ArtifactUser == [id \in ArtifactIds |-> IF id = "r1" THEN "u1" ELSE "u2"]

InitArtifact ==
    /\ App = {}
    /\ AppVersion = {}
    /\ Agent = {}
    /\ AgentVersion = {}
    /\ AppsToCategories = {}
    /\ AppsToTags = {}
    /\ Membership = {[workspaceId |-> "w1", userId |-> "u1", role |-> "owner"]}
    /\ Workspace = {[id |-> "w1"]}
    /\ now = 1
    /\ calls = 0
    /\ last = Outcome("none", None, "OK", 0)
    /\ page = PageIdle
    /\ inflight = {}
    /\ session = NoSession
    /\ \E n \in 0..MaxVersion :
          \* r1 has versions 1..n, r2 has versions 1..MaxVersion
          LET stored == {x \in ArtifactIds \X (1..MaxVersion) :
                           x[1] = "r1" => x[2] <= n}
          IN
          /\ Artifact = {[id |-> x[1], version |-> x[2],
                          userId |-> ArtifactUser[x[1]]] : x \in stored}
          \* any suggestions on r1, one on every version of r2
          /\ \E S \in SUBSET {x \in stored : x[1] = "r1"} :
                ArtifactSuggestion =
                   {[id |-> x, artifactId |-> x[1], artifactVersion |-> x[2]] :
                       x \in S \cup {y \in stored : y[1] = "r2"}}

\* verifyUserArtifact: the rows findFirst may return for this id
verifyUserArtifact(artifactId) == {a \in Artifact : a.id = artifactId}

\* the suggestions on the kept versions are deleted with the others
suggestionsAfter_ge(id, after) ==
    {r \in ArtifactSuggestion : r.artifactId = id /\ r.artifactVersion >= after}

\* the rows the two deletes of the trim select
suggestionsAfter(id, after) ==
    {r \in ArtifactSuggestion : r.artifactId = id /\ r.artifactVersion > after}
versionsAfter(id, after) ==
    {r \in Artifact : r.id = id /\ r.version > after}

\* artifactRouter.deleteVersionsByIdAfterVersion
ArtifactDeleteVersionsByIdAfterVersion(userId, id, after) ==
    LET found == verifyUserArtifact(id)
        codes == IF found = {} THEN {"NOT_FOUND"}
                 ELSE {IF a.userId = userId THEN "OK" ELSE "NOT_FOUND" : a \in found}
    IN
    /\ calls < MaxTrims
    /\ calls' = calls + 1
    /\ \E code \in codes :
          /\ last' = Outcome("artifact.deleteVersionsByIdAfterVersion", id, code,
                             after)
          /\ IF code = "OK"
             THEN /\ ArtifactSuggestion' =
                       ArtifactSuggestion \ suggestionsAfter(id, after)
                  /\ Artifact' = Artifact \ versionsAfter(id, after)
             ELSE UNCHANGED artifactVars
    /\ UNCHANGED <<appVars, Membership, Workspace, now, page, inflight, session>>

NextArtifact ==
    \E u \in UserIds, id \in ArtifactIds, after \in 0..MaxVersion :
       ArtifactDeleteVersionsByIdAfterVersion(u, id, after)

SpecArtifact == InitArtifact /\ [][NextArtifact]_vars

----------------------------------------------------------------------------
(* Cursor pagination of the list endpoints.  The rows that match a call's  *)
(* filter are given by the set of their ordering keys; an id is a number,  *)
(* the empty string is 0 (it sorts below every id); an optional value is   *)
(* the empty set or a singleton.  The caller is authorised: the            *)
(* membership and ownership checks in front of a list pass.                *)

Keys    == 1..MaxKey
Cursors == {{}} \cup {{c} : c \in 0..MaxKey}
Limits  == 1..MaxLimit

\* typeof input.after === 'number'
IsNumber(cursor) == cursor # {}

\* gt(column, cursor) and lt(column, cursor)
gt(key, cursor) == \A c \in cursor : key > c
lt(key, cursor) == \A c \in cursor : key < c

\* orderBy(desc(column)) and orderBy(column)
RECURSIVE orderByDesc(_)
orderByDesc(S) ==
    IF S = {} THEN <<>>
    ELSE LET m == CHOOSE x \in S : \A y \in S : y <= x
         IN  <<m>> \o orderByDesc(S \ {m})

RECURSIVE orderByAsc(_)
orderByAsc(S) ==
    IF S = {} THEN <<>>
    ELSE LET m == CHOOSE x \in S : \A y \in S : x <= y
         IN  <<m>> \o orderByAsc(S \ {m})

\* .limit(n)
limitRows(rows, n) == SubSeq(rows, 1, IF Len(rows) < n THEN Len(rows) ELSE n)

\* the rows are left in the order they were fetched
reverse_asFetched(rows) == rows

\* rows.reverse()
reverse(rows) == [i \in 1..Len(rows) |-> rows[Len(rows) + 1 - i]]

\* the extra row is kept
popExtra_keep(rows, limit) == rows

\* if (hasMore) rows.pop()
popExtra(rows, limit) ==
    IF Len(rows) > limit THEN SubSeq(rows, 1, Len(rows) - 1) ELSE rows

\* rows[0]?.id and rows[rows.length - 1]?.id
firstKey(rows) == IF Len(rows) = 0 THEN {} ELSE {rows[1]}
lastKey(rows)  == IF Len(rows) = 0 THEN {} ELSE {rows[Len(rows)]}

\* what a list call returns; created is the key of a row the call inserted
Page(code, rows, hasMore, firstId, lastId, created) ==
    [code |-> code, rows |-> rows, hasMore |-> hasMore,
     first |-> firstId, last |-> lastId, created |-> created]

BadRequest == Page("BAD_REQUEST", <<>>, FALSE, {}, {}, {})

\* workspaceRouter.list; newId is the id of the workspace it may create
workspaceList(items, after, before, limit, newId) ==
    IF ~refineCursors(after, before) THEN BadRequest
    ELSE
    LET matching == {k \in items :
                       IF Truthy(after) THEN gt(k, after)
                       ELSE IF Truthy(before) THEN lt(k, before)
                       ELSE TRUE}
        isBackwardPagination == Truthy(before)
        fetched == limitRows(IF isBackwardPagination THEN orderByAsc(matching)
                             ELSE orderByDesc(matching), limit + 1)
        hasMore == Len(fetched) > limit
        popped == popExtra(fetched, limit)
        ordered == IF isBackwardPagination THEN reverse(popped) ELSE popped
        create == ~Truthy(after) /\ ~Truthy(before) /\ Len(ordered) = 0
        workspaces == IF create THEN Append(ordered, newId) ELSE ordered
    IN  Page("OK", workspaces, hasMore, firstKey(workspaces), lastKey(workspaces),
             IF create THEN {newId} ELSE {})

\* workspaceRouter.listMembers, the caller being a member
workspaceListMembers(items, after, before, limit) ==
    IF ~refineCursors(after, before) THEN BadRequest
    ELSE
    LET matching == {k \in items :
                       IF Truthy(after) THEN gt(k, after)
                       ELSE IF Truthy(before) THEN lt(k, before)
                       ELSE TRUE}
        isBackwardPagination == Truthy(before)
        fetched == limitRows(IF isBackwardPagination THEN orderByAsc(matching)
                             ELSE orderByDesc(matching), limit + 1)
        hasMore == Len(fetched) > limit
        popped == popExtra(fetched, limit)
        members == IF isBackwardPagination THEN reverse(popped) ELSE popped
    IN  Page("OK", members, hasMore, firstKey(members), lastKey(members), {})

\* getApps, behind app.list, app.listByCategory and app.listByTags
getApps(items, after, before, limit) ==
    LET matching == {k \in items :
                       /\ Truthy(after) => gt(k, after)
                       /\ Truthy(before) => lt(k, before)}
        fetched == limitRows(orderByDesc(matching), limit + 1)
        hasMore == Len(fetched) > limit
        apps == popExtra(fetched, limit)
    IN  IF Len(apps) = 0 THEN Page("OK", <<>>, FALSE, {}, {}, {})
        ELSE Page("OK", apps, hasMore, firstKey(apps), lastKey(apps), {})

\* appRouter.listVersions
appListVersions(items, after, before, limit) ==
    LET matching == {k \in items :
                       /\ IsNumber(after) => gt(k, after)
                       /\ IsNumber(before) => lt(k, before)}
        fetched == limitRows(orderByDesc(matching), limit + 1)
        hasMore == Len(fetched) > limit
        versions == popExtra(fetched, limit)
    IN  Page("OK", versions, hasMore, firstKey(versions), lastKey(versions), {})

\* appRouter.listCategories
appListCategories(items, after, before, limit) ==
    LET matching == {k \in items :
                       /\ Truthy(after) => gt(k, after)
                       /\ Truthy(before) => lt(k, before)}
        fetched == limitRows(orderByDesc(matching), limit + 1)
        hasMore == Len(fetched) > limit
        categories == popExtra(fetched, limit)
    IN  Page("OK", categories, hasMore, firstKey(categories),
             lastKey(categories), {})

\* artifactRouter.listByChat: ascending by id; returns no first and last
artifactListByChat(items, after, before, limit) ==
    LET matching == {k \in items :
                       /\ Truthy(after) => gt(k, after)
                       /\ Truthy(before) => lt(k, before)}
        fetched == limitRows(orderByAsc(matching), limit + 1)
        hasMore == Len(fetched) > limit
        artifacts == popExtra(fetched, limit)
    IN  Page("OK", artifacts, hasMore, {}, {}, {})

\* artifactRouter.listVersionsById: NOT_FOUND for an empty page
artifactListVersionsById(items, after, before, limit) ==
    LET matching == {k \in items :
                       /\ Truthy(after) => gt(k, after)
                       /\ Truthy(before) => lt(k, before)}
        fetched == limitRows(orderByDesc(matching), limit + 1)
        hasMore == Len(fetched) > limit
        versions == popExtra(fetched, limit)
    IN  IF Len(versions) = 0 THEN Page("NOT_FOUND", <<>>, FALSE, {}, {}, {})
        ELSE Page("OK", versions, hasMore, {}, {}, {})

\* artifactRouter.listSuggestions: ascending by id
artifactListSuggestions(items, after, before, limit) ==
    LET matching == {k \in items :
                       /\ Truthy(after) => gt(k, after)
                       /\ Truthy(before) => lt(k, before)}
        fetched == limitRows(orderByAsc(matching), limit + 1)
        hasMore == Len(fetched) > limit
        suggestions == popExtra(fetched, limit)
    IN  Page("OK", suggestions, hasMore, {}, {}, {})

ListOps == {"workspace.list", "workspace.listMembers", "app.list",
            "app.listByCategory", "app.listByTags", "app.listVersions",
            "app.listCategories", "artifact.listByChat",
            "artifact.listVersionsById", "artifact.listSuggestions"}

\* the procedure behind each list operation of the routers
listCall(op, items, after, before, limit, newId) ==
    CASE op = "workspace.list" -> workspaceList(items, after, before, limit, newId)
      [] op = "workspace.listMembers" ->
            workspaceListMembers(items, after, before, limit)
      [] op \in {"app.list", "app.listByCategory", "app.listByTags"} ->
            getApps(items, after, before, limit)
      [] op = "app.listVersions" -> appListVersions(items, after, before, limit)
      [] op = "app.listCategories" -> appListCategories(items, after, before, limit)
      [] op = "artifact.listByChat" ->
            artifactListByChat(items, after, before, limit)
      [] op = "artifact.listVersionsById" ->
            artifactListVersionsById(items, after, before, limit)
      [] op = "artifact.listSuggestions" ->
            artifactListSuggestions(items, after, before, limit)

\* the state of the pagination client: what is stored, the last request and
\* its result, and the rows a walk over the pages has collected
PageState(pc, op, stored, items, after, before, limit, result, seen) ==
    [pc |-> pc, op |-> op, stored |-> stored, items |-> items, after |-> after,
     before |-> before, limit |-> limit, result |-> result, seen |-> seen]

InitPage ==
    /\ App = {}
    /\ AppVersion = {}
    /\ Agent = {}
    /\ AgentVersion = {}
    /\ AppsToCategories = {}
    /\ AppsToTags = {}
    /\ Membership = {[workspaceId |-> "w1", userId |-> "u1", role |-> "owner"]}
    /\ Workspace = {[id |-> "w1"]}
    /\ Artifact = {}
    /\ ArtifactSuggestion = {}
    /\ now = 1
    /\ calls = 0
    /\ last = Outcome("none", None, "OK", 0)
    /\ \E stored \in SUBSET Keys :
          page = PageState("idle", "none", stored, stored, {}, {}, 1,
                           Page("OK", <<>>, FALSE, {}, {}, {}), <<>>)
    /\ inflight = {}
    /\ session = NoSession

\* one call of a list operation; items are the rows stored before the call
ListCall(op, after, before, limit) ==
    /\ page.pc = "idle"
    /\ \E newId \in Keys :
          LET result == listCall(op, page.stored, after, before, limit, newId) IN
          page' = PageState("called", op, page.stored \cup result.created,
                            page.stored, after, before, limit, result, <<>>)
    /\ UNCHANGED storeVars

\* the first call of a walk over all pages: no cursor
WalkStart(op, limit) ==
    /\ page.pc = "idle"
    /\ \E newId \in Keys :
          LET result == listCall(op, page.stored, {}, {}, limit, newId) IN
          page' = PageState(IF result.hasMore THEN "walking" ELSE "done", op,
                            page.stored \cup result.created, page.stored,
                            {}, {}, limit, result, result.rows)
    /\ UNCHANGED storeVars

\* the next call of the walk: forward from the boundary key of the last page
WalkNext ==
    /\ page.pc = "walking"
    /\ \E newId \in Keys :
          LET result == listCall(page.op, page.stored, page.result.last, {},
                                 page.limit, newId) IN
          page' = PageState(IF result.hasMore THEN "walking" ELSE "done",
                            page.op, page.stored \cup result.created, page.items,
                            page.result.last, {}, page.limit, result,
                            page.seen \o result.rows)
    /\ UNCHANGED storeVars

\* a backward page: list(before = c, limit = k) of a workspace list
BackwardCall(op, before, limit) ==
    /\ page.pc = "idle"
    /\ Truthy(before)
    /\ \E newId \in Keys :
          LET result == listCall(op, page.stored, {}, before, limit, newId) IN
          page' = PageState("backward", op, page.stored \cup result.created,
                            page.stored, {}, before, limit, result, result.rows)
    /\ UNCHANGED storeVars

\* the forward page that follows it: list(after = first or last of the
\* backward page, limit = k); seen keeps the rows of the backward page
ForwardAgain(boundary) ==
    /\ page.pc = "backward"
    /\ boundary \in {page.result.first, page.result.last}
    /\ boundary # {}
    /\ \E newId \in Keys :
          LET result == listCall(page.op, page.stored, boundary, {},
                                 page.limit, newId) IN
          page' = PageState("paired", page.op, page.stored \cup result.created,
                            page.items, boundary, page.before, page.limit,
                            result, page.seen)
    /\ UNCHANGED storeVars

NextPage ==
    \/ \E op \in ListOps, after \in Cursors, before \in Cursors, limit \in Limits :
          ListCall(op, after, before, limit)
    \/ \E op \in {"workspace.list", "app.list", "app.listVersions"},
          limit \in Limits : WalkStart(op, limit)
    \/ WalkNext
    \/ \E op \in {"workspace.list", "workspace.listMembers"},
          before \in Cursors, limit \in Limits : BackwardCall(op, before, limit)
    \/ \E boundary \in Cursors : ForwardAgain(boundary)

SpecPage == InitPage /\ [][NextPage]_vars

----------------------------------------------------------------------------
(* Properties *)

\* the versioned content of a row
Content(r) == [type |-> r.type, name |-> r.name, metadata |-> r.metadata]

\* the published rows of an App / of an Agent
PublishedAppVersions(appId) ==
    {r \in AppVersion : r.appId = appId /\ r.version # DRAFT_VERSION}
DraftAppVersions(appId) ==
    {r \in AppVersion : r.appId = appId /\ r.version = DRAFT_VERSION}
PublishedAgentVersions(agentId) ==
    {r \in AgentVersion : r.agentId = agentId /\ r.version # DRAFT_VERSION}
DraftAgentVersions(agentId) ==
    {r \in AgentVersion : r.agentId = agentId /\ r.version = DRAFT_VERSION}

\* the step is a call of op on id that succeeded
Succeeded(op, id) ==
    /\ calls' = calls + 1
    /\ last'.op = op
    /\ last'.id = id
    /\ last'.code = "OK"

C2_HeadInvariant ==
    \A h \in App :
       IF PublishedAppVersions(h.id) = {}
       THEN \A d \in DraftAppVersions(h.id) : Content(h) = Content(d)
       ELSE \A p \in getAppVersion(h.id, Latest) : Content(h) = Content(p)

C5_OneDraft ==
    /\ \A a \in App : Cardinality(DraftAppVersions(a.id)) = 1
    /\ \A g \in Agent : Cardinality(DraftAgentVersions(g.id)) = 1

\* a published App with a published Agent, each with its draft
C5_Witness ==
    \E a \in App, g \in Agent :
       /\ g.appId = a.id
       /\ PublishedAppVersions(a.id) # {}
       /\ PublishedAgentVersions(g.id) # {}

\* C6 - Publish cascade: the step of a successful app.publish returning v
\* gives every Agent of the App exactly one AgentVersion row of version v,
\* with the name and metadata of that Agent's own draft, and sets that
\* Agent's head name and metadata to its own draft's.
C6_PublishCascade ==
    [][\A id \in AppIds :
         Succeeded("app.publish", id) =>
           \A g \in {r \in Agent : r.appId = id} :
              \E d \in DraftAgentVersions(g.id) :
                 /\ {r \in AgentVersion' :
                        r.agentId = g.id /\ r.version = last'.version} =
                      {[agentId |-> g.id, version |-> last'.version,
                        name |-> d.name, metadata |-> d.metadata]}
                 /\ \A r \in AgentVersion :
                       ~(r.agentId = g.id /\ r.version = last'.version)
                 /\ getAgentById(g.id)' =
                      {[g EXCEPT !.name = d.name, !.metadata = d.metadata]}]_vars

\* a publish has cascaded to two Agents whose drafts differ
C6_Witness ==
    /\ last.op = "app.publish"
    /\ last.code = "OK"
    /\ \E g1 \in Agent, g2 \in Agent :
          /\ g1.appId = last.id
          /\ g2.appId = last.id
          /\ g1.name # g2.name
          /\ PublishedAgentVersions(g1.id) # {}
          /\ PublishedAgentVersions(g2.id) # {}

\* C7 - Cascade completeness: after a successful app.delete(id) no row of
\* App, AppVersion, Agent, AgentVersion, AppsToCategories or AppsToTags
\* refers to the App or to one of its former Agents, so the byId lookups find
\* nothing; the rows of the other Apps are as before.
C7_CascadeComplete ==
    [][\A id \in AppIds :
         Succeeded("app.delete", id) =>
           LET formerAgents == {g.id : g \in {r \in Agent : r.appId = id}} IN
           /\ getAppById(id)' = {}
           /\ \A g \in formerAgents : getAgentById(g)' = {}
           /\ App' = {r \in App : r.id # id}
           /\ AppVersion' = {r \in AppVersion : r.appId # id}
           /\ Agent' = {r \in Agent : r.appId # id}
           /\ AgentVersion' = {r \in AgentVersion : r.agentId \notin formerAgents}
           /\ AppsToCategories' = {r \in AppsToCategories : r.appId # id}
           /\ AppsToTags' = {r \in AppsToTags : r.appId # id}
           /\ \A r \in Agent' : r.appId # id]_vars

\* an App is gone and the other App is still stored
C7_Witness ==
    /\ last.op = "app.delete"
    /\ last.code = "OK"
    /\ getAppById(last.id) = {}
    /\ App # {}


\* the stored rows a call's conditions select: a cursor counts as the
\* handler tests it (typeof number in app.listVersions, truthiness elsewhere)
CursorApplies(op, cursor) ==
    IF op = "app.listVersions" THEN IsNumber(cursor) ELSE Truthy(cursor)

Selected(op, items, after, before) ==
    {k \in items :
       /\ CursorApplies(op, after) => \A c \in after : k > c
       /\ CursorApplies(op, before) => \A c \in before : k < c}

\* the list operations whose result carries first and last
FirstLastOps == {"workspace.list", "workspace.listMembers", "app.list",
                 "app.listByCategory", "app.listByTags", "app.listVersions",
                 "app.listCategories"}

\* C8 - Pagination total order: a walk that starts without a cursor and
\* calls forward (after = the last key of the previous page) until hasMore is
\* false has collected exactly the stored rows, each once, in descending
\* key order.
C8_TotalOrder ==
    page.pc = "done" => page.seen = orderByDesc(page.stored)

\* C9 - Cursor exclusivity: a list call given both after and before fails
\* with BAD_REQUEST, whatever the two values are.
C9_CursorExclusivity ==
    (page.pc = "called" /\ page.after # {} /\ page.before # {})
       => page.result.code = "BAD_REQUEST"

\* the page has at most limit rows, and hasMore tells whether more than
\* limit stored rows are selected
PageBounded ==
    /\ Len(page.result.rows) <= page.limit
    /\ page.result.hasMore <=>
         Cardinality(Selected(page.op, page.items, page.after, page.before))
            > page.limit

\* first and last are the keys of the first and the last returned row, and
\* are undefined exactly when the page is empty
PageEnds ==
    LET rows == page.result.rows IN
    /\ page.result.first = IF rows = <<>> THEN {} ELSE {rows[1]}
    /\ page.result.last = IF rows = <<>> THEN {} ELSE {rows[Len(rows)]}
    /\ (page.result.first = {}) <=> (rows = <<>>)
    /\ (page.result.last = {}) <=> (rows = <<>>)

StrictlyDescending(rows) ==
    \A i \in 1..Len(rows) : \A j \in 1..Len(rows) : i < j => rows[i] > rows[j]
StrictlyAscending(rows) ==
    \A i \in 1..Len(rows) : \A j \in 1..Len(rows) : i < j => rows[i] < rows[j]

\* the list operations that order by asc(id)
AscendingOps == {"artifact.listByChat", "artifact.listSuggestions"}

\* C11 as stated - Consistent page order: every page a list operation
\* returns is in strictly descending key order, whether it was requested
\* with no cursor, with after or with before.
C11_PageOrderEveryList ==
    (page.pc = "called" /\ page.result.code = "OK") =>
       StrictlyDescending(page.result.rows)

\* C11 as amended - Consistent page order: every page of the workspace and
\* app lists and of artifact.listVersionsById is in strictly descending key
\* order, whether requested with no cursor, with after or with before (a
\* backward page of the workspace lists is fetched ascending and reversed);
\* every page of artifact.listByChat and artifact.listSuggestions is in
\* strictly ascending key order.
C11_PageOrder ==
    (page.pc = "called" /\ page.result.code = "OK") =>
       IF page.op \in AscendingOps
       THEN StrictlyAscending(page.result.rows)
       ELSE StrictlyDescending(page.result.rows)

\* a backward page of workspace.listMembers with two rows
C11_Witness ==
    /\ page.pc = "called"
    /\ page.op = "workspace.listMembers"
    /\ Truthy(page.before)
    /\ page.result.code = "OK"
    /\ Len(page.result.rows) = 2
    /\ page.result.rows[1] > page.result.rows[2]


\* the keys in a page
KeysOf(rows) == {rows[i] : i \in 1..Len(rows)}

\* C12 - Pagination direction symmetry: after a backward page B =
\* list(before = c, limit = k) and the forward page F = list(after = boundary
\* key of B, limit = k), both pages hold stored rows only, every row of B
\* has key < c, and every stored row whose key lies above the rows of B and
\* below c is in B or in F.
C12_DirectionSymmetry ==
    page.pc = "paired" =>
       LET B == KeysOf(page.seen)
           F == KeysOf(page.result.rows)
       IN  /\ B \cup F \subseteq page.items
           /\ \A b \in B : \A c \in page.before : b < c
           /\ \A k \in page.items :
                 ((\A b \in B : b < k) /\ (\A c \in page.before : k < c))
                    => k \in B \cup F


\* C13 - Artifact version trim: a successful
\* artifact.deleteVersionsByIdAfterVersion(id, after = V) removes exactly the
\* Artifact rows of id with version > V and exactly the ArtifactSuggestion
\* rows of id with artifactVersion > V; rows with version <= V and rows of
\* other ids are unchanged.
C13_ArtifactTrim ==
    [][\A id \in ArtifactIds :
         Succeeded("artifact.deleteVersionsByIdAfterVersion", id) =>
           LET V == last'.version IN
           /\ Artifact' = {r \in Artifact : ~(r.id = id /\ r.version > V)}
           /\ ArtifactSuggestion' =
                 {r \in ArtifactSuggestion :
                    ~(r.artifactId = id /\ r.artifactVersion > V)}
           /\ \A r \in Artifact : (r.id # id \/ r.version <= V) => r \in Artifact'
           /\ \A r \in ArtifactSuggestion :
                 (r.artifactId # id \/ r.artifactVersion <= V)
                    => r \in ArtifactSuggestion'
           /\ Artifact' \subseteq Artifact
           /\ ArtifactSuggestion' \subseteq ArtifactSuggestion]_vars

\* after a trim with after = 3 the artifact has versions 1..3 and a
\* suggestion at version 3 only, and the other artifact still has version 5
\* with its suggestion
C13_Witness ==
    /\ last.op = "artifact.deleteVersionsByIdAfterVersion"
    /\ last.code = "OK"
    /\ last.version = 3
    /\ {r.version : r \in {a \in Artifact : a.id = last.id}} = 1..3
    /\ {r.artifactVersion :
          r \in {x \in ArtifactSuggestion : x.artifactId = last.id}} = {3}
    /\ \E r \in ArtifactSuggestion :
          r.artifactId # last.id /\ r.artifactVersion = 5


\* the owners of a workspace
Owners(workspaceId) ==
    {m \in Membership : m.workspaceId = workspaceId /\ m.role = "owner"}

\* C14 - One-owner invariant: every stored Workspace has exactly one
\* Membership row with role owner.
C14_OneOwner ==
    \A w \in Workspace : Cardinality(Owners(w.id)) = 1

\* ownership has been transferred: the owner of a workspace with two
\* members is not the user who created it
C14_Witness ==
    /\ last.op = "workspace.transferOwner"
    /\ last.code = "OK"
    /\ membersCount(last.id) = 2
    /\ \E m \in Owners(last.id) : m.userId # "u1"
    /\ \E w \in Workspace : w.id = last.id


\* the role column of the Membership rows of a workspace
RolesIn(rows, workspaceId) ==
    {<<m.userId, m.role>> : m \in {r \in rows : r.workspaceId = workspaceId}}

\* C15 - Ownership transfer: a workspace.transferOwner step by caller A with
\* target B in workspace w: when A is the owner and B a member, it succeeds,
\* B is the one owner and A (if not B) a member; when A is the owner and B
\* has no Membership in w, it fails with NOT_FOUND and no row changes; when
\* A is not the owner, it fails with FORBIDDEN and no row changes.
C15_TransferOwner ==
    [][\A A \in User, w \in WorkspaceIds, B \in TargetIds :
         WorkspaceTransferOwner(A, w, B) =>
           IF roleOf(A, w) # {"owner"}
           THEN last'.code = "FORBIDDEN" /\ Membership' = Membership
           ELSE IF ~MembershipKeyTaken(w, B)
           THEN last'.code = "NOT_FOUND" /\ Membership' = Membership
           ELSE /\ last'.code = "OK"
                /\ {m.userId : m \in Owners(w)'} = {B}
                /\ A # B => roleOf(A, w)' = {"member"}
                /\ \A m \in Membership :
                      (m.workspaceId # w \/ m.userId \notin {A, B})
                         => m \in Membership'
                /\ Cardinality(Membership') = Cardinality(Membership)]_vars

\* the owner has handed a workspace to a member and is a member of it now
C15_Witness ==
    /\ last.op = "workspace.transferOwner"
    /\ last.code = "OK"
    /\ \E a \in User, b \in User :
          /\ a # b
          /\ roleOf(a, last.id) = {"member"}
          /\ roleOf(b, last.id) = {"owner"}
          /\ Cardinality(Owners(last.id)) = 1


\* count() of the App rows of a workspace
appsCount(workspaceId) ==
    Cardinality({a \in App : a.workspaceId = workspaceId})

\* no count is above its configured maximum
WithinQuotas ==
    /\ \A u \in TargetIds : userWorkspacesCount(u) <= maxWorkspaces
    /\ \A w \in WorkspaceIds : membersCount(w) <= maxMembers
    /\ \A w \in WorkspaceIds : appsCount(w) <= maxApps

\* the call failed with FORBIDDEN and no table changed
Refused == last'.code = "FORBIDDEN" /\ UNCHANGED <<Workspace, Membership, appVars>>

\* a quota-guarded insert called with its count at the maximum is refused
CreateAtQuota ==
    \A u \in User :
       (WorkspaceCreate(u) /\ userWorkspacesCount(u) = maxWorkspaces) => Refused
AppCreateAtQuota ==
    \A u \in User, w \in WorkspaceIds :
       (AppCreate(u, w, "single-agent", "n1", NoMetadata)
          /\ appsCount(w) = maxApps) => Refused
AddMemberAtQuota ==
    \A u \in User, w \in WorkspaceIds, t \in TargetIds, r \in Roles :
       (WorkspaceAddMember(u, w, t, r)
          /\ (membersCount(w) = maxMembers
               \/ userWorkspacesCount(t) = maxWorkspaces)) => Refused

\* C16 - Quota enforcement: workspace.create by a user with maxWorkspaces
\* memberships, app.create in a workspace with maxApps apps, and
\* workspace.addMember to a workspace with maxMembers members or of a user
\* with maxWorkspaces memberships fail with FORBIDDEN and change no row; no
\* count ever exceeds its maximum.
C16_QuotaEnforcement ==
    /\ []WithinQuotas
    /\ [][CreateAtQuota /\ AppCreateAtQuota /\ AddMemberAtQuota]_vars

\* the owner of a full workspace was refused another member who has no
\* workspace yet
C16_Witness ==
    /\ last.op = "workspace.addMember"
    /\ last.code = "FORBIDDEN"
    /\ membersCount(last.id) = maxMembers
    /\ \E u \in User : userWorkspacesCount(u) = 0
    /\ \E w \in WorkspaceIds : appsCount(w) = maxApps


\* no table is written in the step
NoWrite == UNCHANGED <<appVars, Membership, Workspace, artifactVars>>

\* the user has no Membership row in the workspace
NoMembership(userId, workspaceId) ==
    {m \in Membership : m.userId = userId /\ m.workspaceId = workspaceId} = {}

\* what a step of an App mutation by userId on id must do when the App does
\* not exist or the caller is no member of its workspace
ChecksBeforeWrites(userId, id) ==
    /\ (\A a \in App : a.id # id) => (last'.code = "NOT_FOUND" /\ NoWrite)
    /\ (\E a \in App : a.id = id /\ NoMembership(userId, a.workspaceId))
          => (last'.code = "FORBIDDEN" /\ NoWrite)

UpdateChecked ==
    last'.op = "app.update" =>
       \A u \in CallerIds, i \in UpdateInputs :
          AppUpdate(u, last'.id, i[1], i[2]) => ChecksBeforeWrites(u, last'.id)
PublishChecked ==
    last'.op = "app.publish" =>
       \A u \in CallerIds, t \in 1..MaxClock :
          AppPublish(u, last'.id, t) => ChecksBeforeWrites(u, last'.id)
DeleteChecked ==
    last'.op = "app.delete" =>
       \A u \in CallerIds :
          AppDelete(u, last'.id) => ChecksBeforeWrites(u, last'.id)
UpdateTagsChecked ==
    last'.op = "app.updateTags" =>
       \A u \in CallerIds, ts \in SUBSET TagNames :
          AppUpdateTags(u, last'.id, ts) => ChecksBeforeWrites(u, last'.id)
UpdateCategoriesChecked ==
    last'.op = "app.updateCategories" =>
       \A u \in CallerIds, c \in CategoryInputs :
          AppUpdateCategories(u, last'.id, c[1], c[2])
             => ChecksBeforeWrites(u, last'.id)

\* C17 - Checks before writes: app.update, app.publish, app.delete,
\* app.updateTags and app.updateCategories fail with NOT_FOUND when the App
\* id does not exist and with FORBIDDEN when the caller has no Membership in
\* the App's workspace, and in both cases write nothing.
C17_ChecksBeforeWrites ==
    [][/\ UpdateChecked
       /\ PublishChecked
       /\ DeleteChecked
       /\ UpdateTagsChecked
       /\ UpdateCategoriesChecked]_vars

\* a user without Membership was refused the delete of a published App
\* that has an Agent
C17_Witness ==
    /\ last.op = "app.delete"
    /\ last.code = "FORBIDDEN"
    /\ getAppById(last.id) # {}
    /\ PublishedAppVersions(last.id) # {}
    /\ \E g \in Agent : g.appId = last.id


\* the workspaces that own the App of an Agent
WorkspacesOfAgent(agentId) ==
    {a.workspaceId : a \in {x \in App : \E g \in Agent :
                                g.id = agentId /\ g.appId = x.id}}

AgentCreateAuthorized ==
    \A u \in CallerIds, appId \in AppIds, n \in Names,
       m \in MetaInputs \cup {NoMetadata} :
       (AgentCreate(u, appId, n, m)
          /\ \E a \in App : a.id = appId /\ NoMembership(u, a.workspaceId))
       => (last'.code = "FORBIDDEN" /\ NoWrite)
AgentUpdateAuthorized ==
    \A u \in CallerIds, g \in AgentIds, i \in UpdateInputs :
       (AgentUpdate(u, g, i[1], i[2])
          /\ \E w \in WorkspacesOfAgent(g) : NoMembership(u, w))
       => (last'.code = "FORBIDDEN" /\ NoWrite)

\* C18 - Agent mutation authorization: agent.create and agent.update by a
\* caller without Membership in the workspace of the Agent's App fail with
\* FORBIDDEN and write nothing.
C18_AgentAuthorization ==
    [][AgentCreateAuthorized /\ AgentUpdateAuthorized]_vars


\* the versioned content of an Agent row
AgentContent(r) == [name |-> r.name, metadata |-> r.metadata]

\* C19 - Agent live-edit: a successful agent.update of an Agent with no
\* published version leaves head and draft with the same name and metadata;
\* a successful agent.update of an Agent with a published version changes
\* the draft row only.
C19_AgentLiveEdit ==
    [][\A id \in AgentIds :
         Succeeded("agent.update", id) =>
           IF PublishedAgentVersions(id) = {}
           THEN \A h \in getAgentById(id)', d \in DraftAgentVersions(id)' :
                  AgentContent(h) = AgentContent(d)
           ELSE /\ Agent' = Agent
                /\ AgentVersion' \ DraftAgentVersions(id)' =
                     AgentVersion \ DraftAgentVersions(id)]_vars


\* the version selectors a caller may pass
VersionSelectors ==
    {Draft, Latest} \cup {Number(n) : n \in 0..DRAFT_VERSION}

\* what each selector is to resolve to: the rows of the App it names
\* (none: NOT_FOUND)
Resolves(appId, version) ==
    IF version = Draft THEN DraftAppVersions(appId)
    ELSE IF version = Latest
    THEN {r \in PublishedAppVersions(appId) :
            \A q \in PublishedAppVersions(appId) : q.version <= r.version}
    ELSE {r \in AppVersion : r.appId = appId /\ r.version = version.number}

\* C20 - Version selectors: getAppVersion(appId, 'draft') finds the row of
\* version DRAFT_VERSION, 'latest' the published row with the greatest
\* version and never the draft row, a number exactly the row with that
\* version; each finds nothing (NOT_FOUND) when no such row exists, so
\* 'latest' finds nothing for an App that was never published.
C20_VersionSelectors ==
    \A appId \in AppIds, version \in VersionSelectors :
       /\ getAppVersion(appId, version) = Resolves(appId, version)
       /\ Cardinality(getAppVersion(appId, version)) <= 1
       /\ \A r \in getAppVersion(appId, Latest) : r.version # DRAFT_VERSION
       /\ PublishedAppVersions(appId) = {} => getAppVersion(appId, Latest) = {}


\* the shallow merge of a patch over a base: a key with a defined value in
\* the patch takes it, every other key keeps the value of the base
ShallowMerge(base, patch) ==
    IF patch = NoMetadata THEN base
    ELSE [k \in MetaKeys |-> IF patch[k] \in MetaVals THEN patch[k] ELSE base[k]]

AppUpdateMerges ==
    \A id \in AppIds :
       (last'.op = "app.update" /\ last'.id = id /\ last'.code = "OK") =>
          \A u \in CallerIds, i \in UpdateInputs :
             AppUpdate(u, id, i[1], i[2]) =>
                \A d \in DraftAppVersions(id) :
                   \A e \in DraftAppVersions(id)' :
                      e.metadata = ShallowMerge(d.metadata, i[2])
AgentUpdateMerges ==
    \A id \in AgentIds :
       (last'.op = "agent.update" /\ last'.id = id /\ last'.code = "OK") =>
          \A u \in CallerIds, i \in UpdateInputs :
             AgentUpdate(u, id, i[1], i[2]) =>
                \A d \in DraftAgentVersions(id) :
                   \A e \in DraftAgentVersions(id)' :
                      e.metadata = ShallowMerge(d.metadata, i[2])

\* C21 - Metadata merge: app.update and agent.update store as the draft's
\* metadata the shallow merge of the patch over the draft's metadata: a key
\* with a defined patch value takes it, a key absent from the patch and a
\* key whose patch value is undefined keep their value.
C21_MetadataMerge ==
    [][AppUpdateMerges /\ AgentUpdateMerges]_vars


\* the step is a successful app.delete of this App
DeletesApp(appId) ==
    /\ last'.op = "app.delete"
    /\ last'.code = "OK"
    /\ last'.id = appId
    /\ calls' = calls + 1

CreatesPersonalWorkspace(userId) ==
    \E id \in WorkspaceIds :
       /\ \A w \in Workspace : w.id # id
       /\ Workspace' = Workspace \cup {[id |-> id]}
       /\ Membership' = Membership \cup
             {[workspaceId |-> id, userId |-> userId, role |-> "owner"]}
       /\ last'.code = "OK"
       /\ last'.id = id

\* C23 as stated - Implicit personal workspace: workspace.list without
\* cursors by a user with no Membership creates one Workspace with an owner
\* Membership for that user and returns it; a call by a user who has a
\* Membership, or a call carrying a cursor, creates nothing.
C23_ImplicitWorkspaceAnyCursor ==
    [][\A u \in User, after \in ListCursors, before \in ListCursors :
         WorkspaceList(u, after, before) =>
           IF userWorkspacesCount(u) = 0 /\ after = {} /\ before = {}
           THEN CreatesPersonalWorkspace(u)
           ELSE UNCHANGED <<Workspace, Membership>>]_vars

\* C23 as amended - Implicit personal workspace: workspace.list by a user
\* with no Membership, called with no cursor or with empty-string cursors
\* only, creates one Workspace with an owner Membership for that user and
\* returns it; a call by a user who has a Membership, or a call carrying a
\* non-empty cursor, creates nothing.
C23_ImplicitWorkspace ==
    [][\A u \in User, after \in ListCursors, before \in ListCursors :
         WorkspaceList(u, after, before) =>
           IF userWorkspacesCount(u) = 0 /\ ~Truthy(after) /\ ~Truthy(before)
           THEN CreatesPersonalWorkspace(u)
           ELSE UNCHANGED <<Workspace, Membership>>]_vars

\* a list call has created a second workspace, for another user
C23_Witness ==
    /\ last.op = "workspace.list"
    /\ last.code = "OK"
    /\ \E w \in Workspace : w.id = last.id
    /\ Cardinality(Workspace) = 2
    /\ Cardinality(Owners(last.id)) = 1


\* an Agent of the App has no draft row
MissingDraft(appId) ==
    \E g \in Agent : g.appId = appId /\ DraftAgentVersions(g.id) = {}

\* C24 - Publish abort is atomic: app.publish by a member on an App with a
\* draft, of which some Agent has no draft AgentVersion row, fails with
\* INTERNAL_SERVER_ERROR and leaves every table as it was: no published
\* AppVersion or AgentVersion row is added, no head row is changed.
C24_PublishAbort ==
    [][\A id \in AppIds :
         (last'.op = "app.publish" /\ last'.id = id /\ MissingDraft(id)) =>
            \A u \in CallerIds, t \in 1..MaxClock :
               (/\ AppPublish(u, id, t)
                /\ \E a \in App : a.id = id /\ ~NoMembership(u, a.workspaceId)
                /\ DraftAppVersions(id) # {})
               => (last'.code = "INTERNAL_SERVER_ERROR" /\ NoWrite)]_vars

\* a publish was refused for an App whose head still differs from its
\* draft and of which one Agent has a draft and the other has none
C24_Witness ==
    /\ last.op = "app.publish"
    /\ last.code = "INTERNAL_SERVER_ERROR"
    /\ MissingDraft(last.id)
    /\ \E g \in Agent : g.appId = last.id /\ DraftAgentVersions(g.id) # {}
    /\ PublishedAppVersions(last.id) = {}
    /\ \E h \in getAppById(last.id), d \in DraftAppVersions(last.id) :
          Content(h) # Content(d)


\* the head row of every published App equals its published row with the
\* greatest version number
HeadIsLatestPublished ==
    \A a \in App :
       PublishedAppVersions(a.id) # {} =>
          \E p \in PublishedAppVersions(a.id) :
             /\ \A q \in PublishedAppVersions(a.id) : q.version <= p.version
             /\ Content(a) = Content(p)

\* C25 - Publish is atomic with respect to concurrent updates: under any
\* interleaving of app.publish with app.update calls on the same App, once
\* all calls have finished the head row equals the App's published
\* AppVersion row with the greatest version number.
C25_PublishAtomic ==
    inflight = {} => HeadIsLatestPublished

\* C26 - One owner under concurrency: under any interleaving of
\* transferOwner, deleteMember and addMember calls on a Workspace, every
\* reachable state has exactly one owner Membership for it.
C26_OneOwnerConcurrent ==
    \A w \in Workspace :
       \E o \in Owners(w.id) : Owners(w.id) = {o}

\* the transaction of an App mutation commits its writes
MutationCommits(r) ==
    /\ r.op \in {"app.update", "app.publish", "app.delete"}
    /\ \/ AppUpdateCommit(r)
       \/ AppDeleteCommit(r)
       \/ \E t \in 1..MaxClock : AppPublishCommit(r, t)
    /\ last'.code = "OK"

\* C27 - Authorization holds through the write: under any interleaving of
\* deleteMember(W, U) with an App mutation (update, publish, delete) by U
\* on an App of W, the writes of the mutation are never committed after
\* U's Membership in W has been removed.
C27_AuthorizedThroughWrite ==
    [][\A r \in inflight :
         MutationCommits(r) =>
            \A a \in getAppById(r.id) : ~NoMembership(r.userId, a.workspaceId)]_vars

\* C29 - No orphan agents: under any interleaving of app.delete(A) with an
\* agent.create for App A, once both calls have finished no Agent row, and
\* no AgentVersion row of such an Agent, refers to the deleted App.
C29_NoOrphanAgents ==
    inflight = {} =>
       /\ \A g \in Agent : getAppById(g.appId) # {}
       /\ \A v \in AgentVersion :
             \E g \in Agent : g.id = v.agentId /\ getAppById(g.appId) # {}


\* the credentials are bound to an App other than the requested one
BoundElsewhere(a, appId) == a.appId # {} /\ a.appId # {appId}

\* C30, as claimed - App-bound credentials stay bound: checkAppUser throws
\* UNAUTHORIZED exactly when auth.appId is set and differs from the
\* requested appId, for every Auth that auth() gives.
C30_AppBoundStaysBound ==
    session.pc = "checked" =>
       (session.result = "UNAUTHORIZED"
           <=> BoundElsewhere(session.auth, session.appId))

\* C30 - checkAppUser throws UNAUTHORIZED exactly when the Auth has a
\* userId and its appId is set and differs from the requested appId; an
\* Auth without userId (API-key auth) passes for every appId.
C30_AppUserStaysBound ==
    session.pc = "checked" =>
       (session.result = "UNAUTHORIZED"
           <=> (/\ session.auth.userId # {}
                /\ BoundElsewhere(session.auth, session.appId)))

\* an OAuth user of App a1 was refused App a2
C30_Witness ==
    /\ session.pc = "checked"
    /\ session.auth = Auth({"u2"}, FALSE, {"a1"})
    /\ session.appId = "a2"
    /\ session.result = "UNAUTHORIZED"


\* the version numbers of the published rows of every App and Agent
PublishedVersionNumbers ==
    {r.version : r \in {x \in AppVersion : x.version # DRAFT_VERSION}}
    \cup {r.version : r \in {x \in AgentVersion : x.version # DRAFT_VERSION}}

====
